---- MODULE Spec2Model ----
(***************************************************************************)
(* Document versioning of source/blender/blenloader/intern/                *)
(* versioning_400.cc: the version-gated blocks of blo_do_versions_400 and  *)
(* do_versions_after_linking_400, the node tree interface conversion       *)
(* (legacy socket lists -> interface items, dual-role split, sorting,      *)
(* subtype repair) and the node graph rewrites performed by the shader     *)
(* versioning functions.                                                   *)
(***************************************************************************)
EXTENDS Integers, Sequences, FiniteSets, TLC

VARIABLES
  versionfile,      \* bmain->versionfile
  subversionfile,   \* bmain->subversionfile
  pc,               \* index in Registry of the next block to evaluate; where one block
                    \* is followed: the step of the block, or the index in the list of
                    \* its loop
  load,             \* 1: first load of the file, 2: load after it was saved by this version
  executed,         \* indices in Registry of the blocks whose body ran in this load
  walked,           \* node tree walks of the block evaluated last: <<line, trees visited>>
  nodetrees,        \* bmain->nodetrees: the top-level node trees, in list order
  embedded,         \* the nodetree pointer of each ID that can own one (0 is nullptr)
  tree_interface,   \* per tree: [root_panel, next_uid]
  stored,           \* per tree: the interface and the legacy lists as read from the file
                    \* (history: no action reads it)
  inputs_legacy,    \* per tree: bNodeTree::inputs_legacy
  outputs_legacy,   \* per tree: bNodeTree::outputs_legacy
  ntree,            \* the node tree under rewrite: [type, nodes, links, next_ptr]
  issued,           \* the rewrite primitives issued by the function that ran last
  calls,            \* the calls of versioning_eevee_alpha_source_get in progress, the
                    \* outermost first: [socket, depth, src]
  alpha,            \* <<the AlphaSource that the outermost call returned>>, <<>> before
  bmain,            \* the other lists of the document: [scenes, materials, objects,
                    \* brushes, fcurves], <<>> when none is read
  reports,          \* fd->reports: [list, count], <<>> when none is read
  ime               \* the GHOST_ImeWin32 of a window, <<>> without window

vars == <<versionfile, subversionfile, pc, load, executed, walked, nodetrees, embedded,
          tree_interface, stored, inputs_legacy, outputs_legacy, ntree, issued, calls,
          alpha, bmain, reports, ime>>

othervars == <<bmain, reports, ime>>

docvars == <<nodetrees, embedded, tree_interface, stored, inputs_legacy,
            outputs_legacy>>

(***************************************************************************)
(* Bounds of the model.                                                    *)
(***************************************************************************)
\* stored files range from one major version before the first gate to this many after the last
MaxNewerFiles == 1
\* stored subversions range over 0..MaxSubversion
MaxSubversion == 56
\* longest legacy input list and longest legacy output list of a tree
MaxLegacy == 2
\* most items in the root panel of a stored interface
MaxItems == 2
\* most links of a stored node tree
MaxLinks == 3

(***************************************************************************)
(* The version gate.                                                       *)
(***************************************************************************)
\* MAIN_VERSION_FILE_ATLEAST(main, ver, subver)
MAIN_VERSION_FILE_ATLEAST(ver, subver) ==
  \/ versionfile > ver
  \/ versionfile = ver /\ subversionfile >= subver

\* the blocks of blo_do_versions_400, in source order
blo_do_versions_400 ==
  << [line |-> 2590, gate |-> "not_atleast", ver |-> <<400, 1>>, lo |-> <<0, 0>>, walks |-> <<>>],
     [line |-> 2597, gate |-> "not_atleast", ver |-> <<400, 2>>, lo |-> <<0, 0>>, walks |-> <<>>],
     [line |-> 2605, gate |-> "not_atleast", ver |-> <<400, 5>>, lo |-> <<0, 0>>, walks |-> <<>>],
     [line |-> 2621, gate |-> "not_atleast", ver |-> <<400, 6>>, lo |-> <<0, 0>>, walks |-> <<<<"foreach", 2622>>>>],
     [line |-> 2629, gate |-> "not_atleast", ver |-> <<400, 7>>, lo |-> <<0, 0>>, walks |-> <<>>],
     [line |-> 2635, gate |-> "not_atleast", ver |-> <<400, 8>>, lo |-> <<0, 0>>, walks |-> <<>>],
     [line |-> 2642, gate |-> "not_atleast", ver |-> <<400, 9>>, lo |-> <<0, 0>>, walks |-> <<>>],
     [line |-> 2651, gate |-> "always", ver |-> <<0, 0>>, lo |-> <<0, 0>>, walks |-> <<>>],
     [line |-> 2657, gate |-> "not_atleast", ver |-> <<400, 10>>, lo |-> <<0, 0>>, walks |-> <<>>],
     [line |-> 2670, gate |-> "not_atleast", ver |-> <<400, 11>>, lo |-> <<0, 0>>, walks |-> <<>>],
     [line |-> 2674, gate |-> "not_atleast", ver |-> <<400, 12>>, lo |-> <<0, 0>>, walks |-> <<<<"foreach", 2715>>>>],
     [line |-> 2745, gate |-> "not_atleast", ver |-> <<400, 13>>, lo |-> <<0, 0>>, walks |-> <<>>],
     [line |-> 2760, gate |-> "not_atleast", ver |-> <<400, 14>>, lo |-> <<0, 0>>, walks |-> <<>>],
     [line |-> 2800, gate |-> "not_atleast", ver |-> <<400, 16>>, lo |-> <<0, 0>>, walks |-> <<<<"foreach", 2802>>>>],
     [line |-> 2814, gate |-> "not_atleast", ver |-> <<400, 17>>, lo |-> <<0, 0>>, walks |-> <<<<"foreach", 2816>>>>],
     [line |-> 2894, gate |-> "not_atleast", ver |-> <<400, 20>>, lo |-> <<0, 0>>, walks |-> <<<<"foreach", 2896>>>>],
     [line |-> 2905, gate |-> "else", ver |-> <<400, 20>>, lo |-> <<0, 0>>, walks |-> <<<<"foreach", 2908>>>>],
     [line |-> 2933, gate |-> "not_atleast", ver |-> <<400, 22>>, lo |-> <<0, 0>>, walks |-> <<<<"foreach", 2935>>>>],
     [line |-> 2941, gate |-> "not_atleast", ver |-> <<400, 23>>, lo |-> <<0, 0>>, walks |-> <<<<"list", 2942>>>>],
     [line |-> 2953, gate |-> "not_atleast", ver |-> <<400, 24>>, lo |-> <<0, 0>>, walks |-> <<<<"foreach", 2954>>, <<"foreach", 2990>>>>],
     [line |-> 3013, gate |-> "not_atleast", ver |-> <<400, 25>>, lo |-> <<0, 0>>, walks |-> <<<<"foreach", 3014>>>>],
     [line |-> 3025, gate |-> "not_atleast", ver |-> <<400, 26>>, lo |-> <<0, 0>>, walks |-> <<>>],
     [line |-> 3034, gate |-> "not_atleast", ver |-> <<400, 27>>, lo |-> <<0, 0>>, walks |-> <<>>],
     [line |-> 3055, gate |-> "not_atleast", ver |-> <<400, 28>>, lo |-> <<0, 0>>, walks |-> <<>>],
     [line |-> 3080, gate |-> "not_atleast", ver |-> <<400, 29>>, lo |-> <<0, 0>>, walks |-> <<<<"foreach", 3082>>>>],
     [line |-> 3093, gate |-> "not_atleast", ver |-> <<400, 30>>, lo |-> <<0, 0>>, walks |-> <<>>],
     [line |-> 3157, gate |-> "not_atleast", ver |-> <<400, 31>>, lo |-> <<0, 0>>, walks |-> <<>>],
     [line |-> 3174, gate |-> "not_atleast", ver |-> <<400, 33>>, lo |-> <<0, 0>>, walks |-> <<<<"list", 3176>>>>],
     [line |-> 3181, gate |-> "not_atleast", ver |-> <<401, 1>>, lo |-> <<0, 0>>, walks |-> <<>>],
     [line |-> 3187, gate |-> "not_atleast", ver |-> <<401, 4>>, lo |-> <<0, 0>>, walks |-> <<<<"foreach", 3188>>>>],
     [line |-> 3201, gate |-> "not_atleast", ver |-> <<401, 5>>, lo |-> <<0, 0>>, walks |-> <<>>],
     [line |-> 3221, gate |-> "not_atleast", ver |-> <<401, 5>>, lo |-> <<0, 0>>, walks |-> <<<<"foreach", 3223>>>>],
     [line |-> 3233, gate |-> "not_atleast", ver |-> <<401, 7>>, lo |-> <<0, 0>>, walks |-> <<>>],
     [line |-> 3285, gate |-> "not_atleast", ver |-> <<401, 8>>, lo |-> <<0, 0>>, walks |-> <<<<"list", 3286>>>>],
     [line |-> 3294, gate |-> "not_atleast", ver |-> <<401, 9>>, lo |-> <<0, 0>>, walks |-> <<>>],
     [line |-> 3335, gate |-> "not_atleast", ver |-> <<401, 10>>, lo |-> <<0, 0>>, walks |-> <<<<"list", 3351>>>>],
     [line |-> 3360, gate |-> "atleast_and_not_atleast", ver |-> <<401, 11>>, lo |-> <<400, 20>>, walks |-> <<<<"foreach", 3362>>>>],
     [line |-> 3368, gate |-> "not_atleast", ver |-> <<401, 12>>, lo |-> <<0, 0>>, walks |-> <<<<"foreach", 3369>>>>],
     [line |-> 3381, gate |-> "not_atleast", ver |-> <<401, 13>>, lo |-> <<0, 0>>, walks |-> <<<<"foreach", 3382>>>>],
     [line |-> 3394, gate |-> "not_atleast", ver |-> <<401, 14>>, lo |-> <<0, 0>>, walks |-> <<>>],
     [line |-> 3405, gate |-> "not_atleast", ver |-> <<401, 15>>, lo |-> <<0, 0>>, walks |-> <<<<"foreach", 3406>>>>],
     [line |-> 3419, gate |-> "not_atleast", ver |-> <<401, 16>>, lo |-> <<0, 0>>, walks |-> <<>>],
     [line |-> 3430, gate |-> "not_atleast", ver |-> <<401, 17>>, lo |-> <<0, 0>>, walks |-> <<>>],
     [line |-> 3486, gate |-> "not_atleast", ver |-> <<401, 18>>, lo |-> <<0, 0>>, walks |-> <<>>],
     [line |-> 3494, gate |-> "not_atleast", ver |-> <<401, 19>>, lo |-> <<0, 0>>, walks |-> <<<<"list", 3495>>>>],
     [line |-> 3503, gate |-> "not_atleast", ver |-> <<401, 20>>, lo |-> <<0, 0>>, walks |-> <<>>],
     [line |-> 3514, gate |-> "not_atleast", ver |-> <<401, 21>>, lo |-> <<0, 0>>, walks |-> <<>>],
     [line |-> 3525, gate |-> "not_atleast", ver |-> <<400, 0>>, lo |-> <<0, 0>>, walks |-> <<>>],
     [line |-> 3533, gate |-> "not_atleast", ver |-> <<402, 1>>, lo |-> <<0, 0>>, walks |-> <<>>],
     [line |-> 3543, gate |-> "not_atleast", ver |-> <<402, 2>>, lo |-> <<0, 0>>, walks |-> <<>>],
     [line |-> 3563, gate |-> "not_atleast", ver |-> <<402, 3>>, lo |-> <<0, 0>>, walks |-> <<<<"foreach", 3570>>>>],
     [line |-> 3584, gate |-> "not_atleast", ver |-> <<402, 4>>, lo |-> <<0, 0>>, walks |-> <<>>],
     [line |-> 3599, gate |-> "not_atleast", ver |-> <<402, 5>>, lo |-> <<0, 0>>, walks |-> <<>>],
     [line |-> 3605, gate |-> "not_atleast", ver |-> <<402, 6>>, lo |-> <<0, 0>>, walks |-> <<>>],
     [line |-> 3614, gate |-> "not_atleast", ver |-> <<402, 8>>, lo |-> <<0, 0>>, walks |-> <<>>],
     [line |-> 3620, gate |-> "not_atleast", ver |-> <<402, 9>>, lo |-> <<0, 0>>, walks |-> <<>>],
     [line |-> 3633, gate |-> "not_atleast", ver |-> <<402, 10>>, lo |-> <<0, 0>>, walks |-> <<>>],
     [line |-> 3641, gate |-> "not_atleast", ver |-> <<402, 12>>, lo |-> <<0, 0>>, walks |-> <<<<"foreach", 3642>>>>],
     [line |-> 3654, gate |-> "not_atleast", ver |-> <<402, 14>>, lo |-> <<0, 0>>, walks |-> <<>>],
     [line |-> 3674, gate |-> "not_atleast", ver |-> <<402, 18>>, lo |-> <<0, 0>>, walks |-> <<>>],
     [line |-> 3684, gate |-> "not_atleast", ver |-> <<402, 19>>, lo |-> <<0, 0>>, walks |-> <<>>],
     [line |-> 3698, gate |-> "not_atleast", ver |-> <<402, 20>>, lo |-> <<0, 0>>, walks |-> <<>>],
     [line |-> 3705, gate |-> "not_atleast", ver |-> <<402, 21>>, lo |-> <<0, 0>>, walks |-> <<>>],
     [line |-> 3709, gate |-> "not_atleast", ver |-> <<402, 22>>, lo |-> <<0, 0>>, walks |-> <<>>],
     [line |-> 3718, gate |-> "not_atleast", ver |-> <<402, 23>>, lo |-> <<0, 0>>, walks |-> <<>>],
     [line |-> 3730, gate |-> "not_atleast", ver |-> <<402, 24>>, lo |-> <<0, 0>>, walks |-> <<>>],
     [line |-> 3748, gate |-> "not_atleast", ver |-> <<402, 25>>, lo |-> <<0, 0>>, walks |-> <<<<"foreach", 3749>>>>],
     [line |-> 3776, gate |-> "not_atleast", ver |-> <<402, 26>>, lo |-> <<0, 0>>, walks |-> <<>>],
     [line |-> 3786, gate |-> "not_atleast", ver |-> <<402, 27>>, lo |-> <<0, 0>>, walks |-> <<>>],
     [line |-> 3805, gate |-> "not_atleast", ver |-> <<402, 28>>, lo |-> <<0, 0>>, walks |-> <<>>],
     [line |-> 3818, gate |-> "not_atleast", ver |-> <<402, 29>>, lo |-> <<0, 0>>, walks |-> <<>>],
     [line |-> 3826, gate |-> "not_atleast", ver |-> <<402, 30>>, lo |-> <<0, 0>>, walks |-> <<>>],
     [line |-> 3834, gate |-> "not_atleast", ver |-> <<402, 31>>, lo |-> <<0, 0>>, walks |-> <<>>],
     [line |-> 3845, gate |-> "not_atleast", ver |-> <<402, 31>>, lo |-> <<0, 0>>, walks |-> <<>>],
     [line |-> 3881, gate |-> "not_atleast", ver |-> <<402, 33>>, lo |-> <<0, 0>>, walks |-> <<>>],
     [line |-> 3894, gate |-> "not_atleast", ver |-> <<402, 34>>, lo |-> <<0, 0>>, walks |-> <<>>],
     [line |-> 3920, gate |-> "not_atleast", ver |-> <<402, 36>>, lo |-> <<0, 0>>, walks |-> <<>>],
     [line |-> 3933, gate |-> "not_atleast", ver |-> <<402, 37>>, lo |-> <<0, 0>>, walks |-> <<>>],
     [line |-> 3946, gate |-> "not_atleast", ver |-> <<402, 38>>, lo |-> <<0, 0>>, walks |-> <<>>],
     [line |-> 3952, gate |-> "not_atleast", ver |-> <<402, 39>>, lo |-> <<0, 0>>, walks |-> <<>>],
     [line |-> 3971, gate |-> "not_atleast", ver |-> <<402, 40>>, lo |-> <<0, 0>>, walks |-> <<<<"list", 3972>>>>],
     [line |-> 3979, gate |-> "not_atleast", ver |-> <<402, 41>>, lo |-> <<0, 0>>, walks |-> <<>>],
     [line |-> 3986, gate |-> "not_atleast", ver |-> <<402, 43>>, lo |-> <<0, 0>>, walks |-> <<>>],
     [line |-> 3994, gate |-> "not_atleast", ver |-> <<402, 44>>, lo |-> <<0, 0>>, walks |-> <<>>],
     [line |-> 4002, gate |-> "not_atleast", ver |-> <<402, 45>>, lo |-> <<0, 0>>, walks |-> <<>>],
     [line |-> 4015, gate |-> "not_atleast", ver |-> <<402, 46>>, lo |-> <<0, 0>>, walks |-> <<>>],
     [line |-> 4022, gate |-> "not_atleast", ver |-> <<402, 48>>, lo |-> <<0, 0>>, walks |-> <<>>],
     [line |-> 4033, gate |-> "not_atleast", ver |-> <<402, 49>>, lo |-> <<0, 0>>, walks |-> <<>>],
     [line |-> 4046, gate |-> "not_atleast", ver |-> <<402, 50>>, lo |-> <<0, 0>>, walks |-> <<<<"list", 4047>>>>],
     [line |-> 4071, gate |-> "not_atleast", ver |-> <<402, 53>>, lo |-> <<0, 0>>, walks |-> <<>>],
     [line |-> 4084, gate |-> "not_atleast", ver |-> <<402, 55>>, lo |-> <<0, 0>>, walks |-> <<<<"foreach", 4085>>>>],
     [line |-> 4117, gate |-> "always", ver |-> <<0, 0>>, lo |-> <<0, 0>>, walks |-> <<>>] >>

\* the blocks of do_versions_after_linking_400, in source order
do_versions_after_linking_400 ==
  << [line |-> 721, gate |-> "not_atleast", ver |-> <<400, 9>>, lo |-> <<0, 0>>, walks |-> <<>>],
     [line |-> 778, gate |-> "not_atleast", ver |-> <<400, 21>>, lo |-> <<0, 0>>, walks |-> <<>>],
     [line |-> 789, gate |-> "not_atleast", ver |-> <<400, 24>>, lo |-> <<0, 0>>, walks |-> <<<<"foreach", 790>>>>],
     [line |-> 799, gate |-> "not_atleast", ver |-> <<400, 34>>, lo |-> <<0, 0>>, walks |-> <<>>],
     [line |-> 803, gate |-> "not_atleast", ver |-> <<401, 5>>, lo |-> <<0, 0>>, walks |-> <<>>],
     [line |-> 813, gate |-> "not_atleast", ver |-> <<401, 23>>, lo |-> <<0, 0>>, walks |-> <<>>],
     [line |-> 817, gate |-> "not_atleast", ver |-> <<402, 15>>, lo |-> <<0, 0>>, walks |-> <<>>],
     [line |-> 838, gate |-> "not_atleast", ver |-> <<402, 23>>, lo |-> <<0, 0>>, walks |-> <<>>],
     [line |-> 844, gate |-> "not_atleast", ver |-> <<402, 51>>, lo |-> <<0, 0>>, walks |-> <<>>],
     [line |-> 893, gate |-> "not_atleast", ver |-> <<402, 52>>, lo |-> <<0, 0>>, walks |-> <<>>] >>

\* the loader runs blo_do_versions_400 on the file, then do_versions_after_linking_400
Registry == blo_do_versions_400 \o do_versions_after_linking_400

\* the version this program writes: the newest guard of the registry
CurrentVersion == <<402, 55>>

\* BlockRuns, had the subtype fix (line 3360) been gated by !MAIN_VERSION_FILE_ATLEAST
\* (401, 11) alone
BlockRuns_without_lower_bound(b) ==
  CASE b.gate \in {"not_atleast", "atleast_and_not_atleast"} ->
         ~MAIN_VERSION_FILE_ATLEAST(b.ver[1], b.ver[2])
    [] b.gate = "else" -> MAIN_VERSION_FILE_ATLEAST(b.ver[1], b.ver[2])
    [] b.gate = "always" -> TRUE

\* BlockRuns, had the gates !MAIN_VERSION_FILE_ATLEAST (M, m) been left out
BlockRuns_ungated(b) ==
  CASE b.gate = "not_atleast" -> TRUE
    [] b.gate = "else" -> MAIN_VERSION_FILE_ATLEAST(b.ver[1], b.ver[2])
    [] b.gate = "atleast_and_not_atleast" ->
         /\ MAIN_VERSION_FILE_ATLEAST(b.lo[1], b.lo[2])
         /\ ~MAIN_VERSION_FILE_ATLEAST(b.ver[1], b.ver[2])
    [] b.gate = "always" -> TRUE

\* BlockRuns, had the 400.20 block no else branch
BlockRuns_without_else(b) ==
  CASE b.gate = "not_atleast" -> ~MAIN_VERSION_FILE_ATLEAST(b.ver[1], b.ver[2])
    [] b.gate = "else" -> FALSE
    [] b.gate = "atleast_and_not_atleast" ->
         /\ MAIN_VERSION_FILE_ATLEAST(b.lo[1], b.lo[2])
         /\ ~MAIN_VERSION_FILE_ATLEAST(b.ver[1], b.ver[2])
    [] b.gate = "always" -> TRUE

\* whether the body of block b runs for the stored version
BlockRuns(b) ==
  CASE b.gate = "not_atleast" -> ~MAIN_VERSION_FILE_ATLEAST(b.ver[1], b.ver[2])
    [] b.gate = "else" -> MAIN_VERSION_FILE_ATLEAST(b.ver[1], b.ver[2])
    [] b.gate = "atleast_and_not_atleast" ->
         /\ MAIN_VERSION_FILE_ATLEAST(b.lo[1], b.lo[2])
         /\ ~MAIN_VERSION_FILE_ATLEAST(b.ver[1], b.ver[2])
    [] b.gate = "always" -> TRUE

(***************************************************************************)
(* Small helpers.                                                          *)
(***************************************************************************)
Min(S) == CHOOSE x \in S : \A y \in S : x <= y
Max(S) == CHOOSE x \in S : \A y \in S : x >= y
Range(s) == {s[i] : i \in 1..Len(s)}
\* s with element e inserted so that it ends up at 0-based index pos
InsertAt(s, pos, e) == SubSeq(s, 1, pos) \o <<e>> \o SubSeq(s, pos + 1, Len(s))

(***************************************************************************)
(* Node tree interface items.                                              *)
(*   socket: [item_type, ptr, name, identifier, socket_type, flag,         *)
(*            attribute_domain, socket_data]                               *)
(*   panel:  [item_type, ptr, name, flag, items]                           *)
(* ptr is the address of the item (0 is nullptr); identifier is the        *)
(* string, kept as <<prefix, number>> for "Socket_%d", "Input_%d", ...     *)
(***************************************************************************)
IsSocket(item) == item.item_type = "NODE_INTERFACE_SOCKET"
IsPanel(item) == item.item_type = "NODE_INTERFACE_PANEL"

\* bNodeTreeInterface::foreach_item: every item below a panel, parents before children
RECURSIVE foreach_item(_)
foreach_item(items) ==
  IF items = <<>> THEN <<>>
  ELSE LET h == Head(items)
       IN <<h>> \o (IF IsPanel(h) THEN foreach_item(h.items) ELSE <<>>)
               \o foreach_item(Tail(items))

\* a fresh address in the interface (MEM_cnew, MEM_dupallocN)
MEM_dupallocN(root_panel) ==
  LET all == foreach_item(root_panel.items)
  IN 1 + Max({root_panel.ptr} \cup {all[i].ptr : i \in 1..Len(all)})

\* the panel of address q in or below panel
RECURSIVE PanelAt(_, _)
PanelAt(panel, q) ==
  IF panel.ptr = q THEN panel
  ELSE LET sub == {i \in 1..Len(panel.items) :
                     /\ IsPanel(panel.items[i])
                     /\ PanelAt(panel.items[i], q) # <<>>}
       IN IF sub = {} THEN <<>> ELSE PanelAt(panel.items[Min(sub)], q)

\* panel with the panel of address q replaced by new
RECURSIVE ReplacePanel(_, _, _)
ReplacePanel(panel, q, new) ==
  IF panel.ptr = q THEN new
  ELSE [panel EXCEPT !.items =
          [i \in 1..Len(panel.items) |->
             IF IsPanel(panel.items[i]) THEN ReplacePanel(panel.items[i], q, new)
             ELSE panel.items[i]]]

\* address of the panel that holds the item of address p directly, -1 when there is none
RECURSIVE ParentOf(_, _)
ParentOf(panel, p) ==
  IF \E i \in 1..Len(panel.items) : panel.items[i].ptr = p THEN panel.ptr
  ELSE LET sub == {i \in 1..Len(panel.items) :
                     /\ IsPanel(panel.items[i])
                     /\ ParentOf(panel.items[i], p) # -1}
       IN IF sub = {} THEN -1 ELSE ParentOf(panel.items[Min(sub)], p)

\* bNodeTreeInterface::find_item_parent: nullptr (0) when the parent is the root panel
find_item_parent(root_panel, p) ==
  LET q == ParentOf(root_panel, p) IN IF q = root_panel.ptr THEN 0 ELSE q

\* bNodeTreeInterface::find_item_position: 0-based index of the item in its parent
find_item_position(root_panel, p) ==
  LET parent == PanelAt(root_panel, ParentOf(root_panel, p))
  IN Min({i \in 1..Len(parent.items) : parent.items[i].ptr = p}) - 1

(***************************************************************************)
(* Conversion of the legacy socket lists.                                  *)
(***************************************************************************)
subtypes_map ==
  [idname \in {"NodeSocketFloatUnsigned", "NodeSocketFloatPercentage", "NodeSocketFloatFactor",
               "NodeSocketFloatAngle", "NodeSocketFloatTime", "NodeSocketFloatTimeAbsolute",
               "NodeSocketFloatDistance", "NodeSocketIntUnsigned", "NodeSocketIntPercentage",
               "NodeSocketIntFactor", "NodeSocketVectorTranslation",
               "NodeSocketVectorDirection", "NodeSocketVectorVelocity",
               "NodeSocketVectorAcceleration", "NodeSocketVectorEuler", "NodeSocketVectorXYZ"}
   |-> IF idname \in {"NodeSocketFloatUnsigned", "NodeSocketFloatPercentage",
                      "NodeSocketFloatFactor", "NodeSocketFloatAngle", "NodeSocketFloatTime",
                      "NodeSocketFloatTimeAbsolute", "NodeSocketFloatDistance"}
         THEN "NodeSocketFloat"
       ELSE IF idname \in {"NodeSocketIntUnsigned", "NodeSocketIntPercentage",
                           "NodeSocketIntFactor"}
         THEN "NodeSocketInt"
       ELSE "NodeSocketVector"]

legacy_socket_idname_to_socket_type(idname) ==
  IF idname \in DOMAIN subtypes_map THEN subtypes_map[idname] ELSE idname

\* the interface socket built from a legacy socket; ptr is its new address
legacy_socket_move_to_interface(legacy_socket, in_out, ptr) ==
  [item_type |-> "NODE_INTERFACE_SOCKET",
   ptr |-> ptr,
   name |-> legacy_socket.name,
   identifier |-> legacy_socket.identifier,
   socket_type |-> legacy_socket_idname_to_socket_type(legacy_socket.idname),
   flag |-> (IF in_out = "SOCK_IN" THEN {"NODE_INTERFACE_SOCKET_INPUT"}
             ELSE {"NODE_INTERFACE_SOCKET_OUTPUT"})
            \cup (IF "SOCK_HIDE_VALUE" \in legacy_socket.flag
                  THEN {"NODE_INTERFACE_SOCKET_HIDE_VALUE"} ELSE {})
            \cup (IF "SOCK_HIDE_IN_MODIFIER" \in legacy_socket.flag
                  THEN {"NODE_INTERFACE_SOCKET_HIDE_IN_MODIFIER"} ELSE {}),
   attribute_domain |-> legacy_socket.attribute_domain,
   socket_data |-> legacy_socket.default_value]

\* versioning_convert_node_tree_socket_lists_to_interface, had it moved the inputs first
versioning_convert_inputs_first(iface, inputs, outputs) ==
  LET num_inputs == Len(inputs)
      num_outputs == Len(outputs)
      base == iface.root_panel.ptr
  IN [iface EXCEPT !.root_panel.items =
        [index \in 1..(num_inputs + num_outputs) |->
           IF index <= num_inputs
             THEN legacy_socket_move_to_interface(inputs[index], "SOCK_IN", base + index)
           ELSE legacy_socket_move_to_interface(outputs[index - num_inputs], "SOCK_OUT",
                                                base + index)]]

\* the tree interface of a tree after versioning_convert_node_tree_socket_lists_to_interface:
\* items_array is replaced by a new array of num_inputs + num_outputs items
versioning_convert_node_tree_socket_lists_to_interface(iface, inputs, outputs) ==
  LET num_inputs == Len(inputs)
      num_outputs == Len(outputs)
      base == iface.root_panel.ptr
  IN [iface EXCEPT !.root_panel.items =
        [index \in 1..(num_inputs + num_outputs) |->
           IF index <= num_outputs
             THEN legacy_socket_move_to_interface(outputs[index], "SOCK_OUT", base + index)
           ELSE legacy_socket_move_to_interface(inputs[index - num_outputs], "SOCK_IN",
                                                base + index)]]

\* versioning_fix_socket_subtype_idnames, had it left the sockets of nested panels alone
fix_subtype_items_top_level(items) ==
  [i \in 1..Len(items) |->
     IF IsSocket(items[i])
       THEN [items[i] EXCEPT !.socket_type = legacy_socket_idname_to_socket_type(@)]
     ELSE items[i]]

\* versioning_fix_socket_subtype_idnames on the items of a panel
RECURSIVE fix_subtype_items(_)
fix_subtype_items(items) ==
  [i \in 1..Len(items) |->
     IF IsSocket(items[i])
       THEN [items[i] EXCEPT !.socket_type = legacy_socket_idname_to_socket_type(@)]
     ELSE [items[i] EXCEPT !.items = fix_subtype_items(@)]]

versioning_fix_socket_subtype_idnames(iface) ==
  [iface EXCEPT !.root_panel.items = fix_subtype_items(@)]

(***************************************************************************)
(* Constrained insertion, splitting of dual-role sockets, sorting.         *)
(***************************************************************************)
\* version_nodes_find_valid_insert_position_for_item, had it applied no constraint
version_nodes_find_valid_insert_position_unconstrained(panel, item, initial_pos) ==
  initial_pos

\* 0-based position at which item may be inserted in panel, starting from initial_pos
version_nodes_find_valid_insert_position_for_item(panel, item, initial_pos) ==
  LET sockets_above_panels == "NODE_INTERFACE_PANEL_ALLOW_SOCKETS_AFTER_PANELS" \notin panel.flag
      items == panel.items
      size == Len(items)
      \* 0-based test positions the loops reach before they break
      from_end == {test_pos \in 0..(size - 1) :
                     test_pos >= initial_pos /\ ~IsPanel(items[test_pos + 1])}
      from_start == {test_pos \in 0..(size - 1) :
                       test_pos <= initial_pos /\ IsPanel(items[test_pos + 1])}
  IN IF ~sockets_above_panels THEN initial_pos
     ELSE IF IsPanel(item)
       THEN (IF from_end = {} THEN initial_pos ELSE Max(from_end) + 1)
     ELSE (IF from_start = {} THEN initial_pos ELSE Min(from_start))

\* parent after version_nodes_insert_item(parent, socket, position)
version_nodes_insert_item(parent, socket, position) ==
  LET valid == version_nodes_find_valid_insert_position_for_item(parent, socket, position)
      clamped == IF valid < 0 THEN 0
                 ELSE IF valid > Len(parent.items) THEN Len(parent.items) ELSE valid
  IN [parent EXCEPT !.items = InsertAt(@, clamped, socket)]

\* "Socket_%d"
BLI_sprintfN_Socket(uid) == <<"Socket_", uid>>

\* the copy of a socket made by MEM_dupallocN and version_copy_socket
version_copy_socket(src, ptr, identifier) ==
  [src EXCEPT !.ptr = ptr, !.identifier = identifier]

\* version_node_group_split_socket, had it left next_uid as it was
version_node_group_split_socket_same_uid(iface, socket_ptr, parent_ptr, position) ==
  LET root == iface.root_panel
      parent == IF parent_ptr = 0 THEN root ELSE PanelAt(root, parent_ptr)
      socket == parent.items[Min({i \in 1..Len(parent.items) :
                                    parent.items[i].ptr = socket_ptr})]
      csocket == version_copy_socket(socket, MEM_dupallocN(root),
                                     BLI_sprintfN_Socket(iface.next_uid))
      inserted == version_nodes_insert_item(parent, csocket, position)
      flagged == [inserted EXCEPT !.items =
                    [i \in 1..Len(inserted.items) |->
                       IF inserted.items[i].ptr = socket.ptr
                         THEN [inserted.items[i] EXCEPT
                                 !.flag = @ \ {"NODE_INTERFACE_SOCKET_INPUT"}]
                       ELSE IF inserted.items[i].ptr = csocket.ptr
                         THEN [inserted.items[i] EXCEPT
                                 !.flag = @ \ {"NODE_INTERFACE_SOCKET_OUTPUT"}]
                       ELSE inserted.items[i]]]
  IN [root_panel |-> ReplacePanel(root, parent.ptr, flagged),
      next_uid |-> iface.next_uid]

\* version_node_group_split_socket, had the copy kept the identifier of the socket
version_node_group_split_socket_same_identifier(iface, socket_ptr, parent_ptr, position) ==
  LET root == iface.root_panel
      parent == IF parent_ptr = 0 THEN root ELSE PanelAt(root, parent_ptr)
      socket == parent.items[Min({i \in 1..Len(parent.items) :
                                    parent.items[i].ptr = socket_ptr})]
      csocket == version_copy_socket(socket, MEM_dupallocN(root), socket.identifier)
      inserted == version_nodes_insert_item(parent, csocket, position)
      flagged == [inserted EXCEPT !.items =
                    [i \in 1..Len(inserted.items) |->
                       IF inserted.items[i].ptr = socket.ptr
                         THEN [inserted.items[i] EXCEPT
                                 !.flag = @ \ {"NODE_INTERFACE_SOCKET_INPUT"}]
                       ELSE IF inserted.items[i].ptr = csocket.ptr
                         THEN [inserted.items[i] EXCEPT
                                 !.flag = @ \ {"NODE_INTERFACE_SOCKET_OUTPUT"}]
                       ELSE inserted.items[i]]]
  IN [root_panel |-> ReplacePanel(root, parent.ptr, flagged),
      next_uid |-> iface.next_uid + 1]

\* the tree interface after version_node_group_split_socket on the socket of address
\* socket_ptr, held by the panel of address parent_ptr (0: the root panel)
version_node_group_split_socket(iface, socket_ptr, parent_ptr, position) ==
  LET root == iface.root_panel
      parent == IF parent_ptr = 0 THEN root ELSE PanelAt(root, parent_ptr)
      socket == parent.items[Min({i \in 1..Len(parent.items) :
                                    parent.items[i].ptr = socket_ptr})]
      csocket == version_copy_socket(socket, MEM_dupallocN(root),
                                     BLI_sprintfN_Socket(iface.next_uid))
      inserted == version_nodes_insert_item(parent, csocket, position)
      flagged == [inserted EXCEPT !.items =
                    [i \in 1..Len(inserted.items) |->
                       IF inserted.items[i].ptr = socket.ptr
                         THEN [inserted.items[i] EXCEPT
                                 !.flag = @ \ {"NODE_INTERFACE_SOCKET_INPUT"}]
                       ELSE IF inserted.items[i].ptr = csocket.ptr
                         THEN [inserted.items[i] EXCEPT
                                 !.flag = @ \ {"NODE_INTERFACE_SOCKET_OUTPUT"}]
                       ELSE inserted.items[i]]]
  IN [root_panel |-> ReplacePanel(root, parent.ptr, flagged),
      next_uid |-> iface.next_uid + 1]

\* the addresses collected in sockets_to_split (lines 2991-3002)
sockets_to_split(iface) ==
  LET all == foreach_item(iface.root_panel.items)
      both == {i \in 1..Len(all) :
                 /\ IsSocket(all[i])
                 /\ "NODE_INTERFACE_SOCKET_INPUT" \in all[i].flag
                 /\ "NODE_INTERFACE_SOCKET_OUTPUT" \in all[i].flag}
  IN [k \in 1..Cardinality(both) |->
        all[CHOOSE i \in both : Cardinality({j \in both : j < i}) = k - 1].ptr]

\* the loop over sockets_to_split (lines 3004-3008)
RECURSIVE split_sockets(_, _)
split_sockets(iface, todo) ==
  IF todo = <<>> THEN iface
  ELSE LET position == find_item_position(iface.root_panel, Head(todo))
           parent == find_item_parent(iface.root_panel, Head(todo))
       IN split_sockets(version_node_group_split_socket(iface, Head(todo), parent,
                                                        position + 1),
                        Tail(todo))

\* item_compare of versioning_node_group_sort_sockets_recursive: a goes above b
item_compare(a, b) ==
  IF a.item_type # b.item_type THEN IsSocket(a)
  ELSE IF IsSocket(a)
    THEN LET is_output_a == "NODE_INTERFACE_SOCKET_OUTPUT" \in a.flag
             is_output_b == "NODE_INTERFACE_SOCKET_OUTPUT" \in b.flag
         IN IF is_output_a # is_output_b THEN is_output_a ELSE FALSE
  ELSE FALSE

\* std::stable_sort, had it moved the first item behind the others
stable_sort_first_to_last(items) ==
  IF items = <<>> THEN <<>> ELSE Append(Tail(items), Head(items))

\* std::stable_sort with item_compare: insertion of each item after the last item that
\* it does not go above
RECURSIVE stable_sort(_)
stable_sort(items) ==
  IF items = <<>> THEN <<>>
  ELSE LET front == stable_sort(SubSeq(items, 1, Len(items) - 1))
           last == items[Len(items)]
           keep == {i \in 1..Len(front) : ~item_compare(last, front[i])}
           pos == IF keep = {} THEN 0 ELSE Max(keep)
       IN InsertAt(front, pos, last)

\* versioning_node_group_sort_sockets_recursive, had it left the child panels alone
versioning_node_group_sort_sockets_top_level(panel) ==
  [panel EXCEPT !.items = stable_sort(@)]

RECURSIVE versioning_node_group_sort_sockets_recursive(_)
versioning_node_group_sort_sockets_recursive(panel) ==
  LET sorted == stable_sort(panel.items)
  IN [panel EXCEPT !.items =
        [i \in 1..Len(sorted) |->
           IF IsPanel(sorted[i]) THEN versioning_node_group_sort_sockets_recursive(sorted[i])
           ELSE sorted[i]]]

(***************************************************************************)
(* Node tree walks.                                                        *)
(***************************************************************************)
\* FOREACH_NODETREE_BEGIN (bmain, ntree, id): the trees of bmain->nodetrees, then the
\* tree embedded in each ID that owns one
FOREACH_NODETREE ==
  nodetrees \o SelectSeq([i \in 1..Len(embedded) |-> embedded[i].nodetree],
                         LAMBDA t : t # 0)

\* LISTBASE_FOREACH (bNodeTree *, ntree, &bmain->nodetrees)
LISTBASE_FOREACH_nodetrees == nodetrees

\* WalkTrees, had every block walked bmain->nodetrees only
WalkTrees_list_only(kind) == LISTBASE_FOREACH_nodetrees

\* the trees visited by a walk of the given kind
WalkTrees(kind) == IF kind = "foreach" THEN FOREACH_NODETREE ELSE LISTBASE_FOREACH_nodetrees

\* every tree of the document
Trees == (Range(nodetrees) \cup {embedded[i].nodetree : i \in 1..Len(embedded)}) \ {0}

(***************************************************************************)
(* Node graphs.                                                            *)
(*   tree:   [type, nodes, links, next_ptr]                                *)
(*   node:   [ptr, type, idname, inputs, outputs]                          *)
(*   socket: [identifier, type, value]; a socket is named by its node, its *)
(*           side (SOCK_IN, SOCK_OUT) and its identifier ("" is nullptr)   *)
(*   link:   [ptr, fromnode, fromsock, tonode, tosock]                     *)
(* ptr is the address of a node or of a link (0 is nullptr); next_ptr is   *)
(* the address that the next allocation returns. Socket values are in      *)
(* hundredths.                                                             *)
(* A rewrite runs on G = [tree, log]: log lists the primitives issued so   *)
(* far, each with the tree before and after it.                            *)
(***************************************************************************)
Socket(identifier, type, value) == [identifier |-> identifier, type |-> type, value |-> value]

\* the node types that the rewrites meet, with the sockets that a new node of the type has
node_types ==
  { [type |-> "SH_NODE_TEX_COORD", idname |-> "ShaderNodeTexCoord",
     inputs |-> <<>>,
     outputs |-> <<Socket("Normal", "SOCK_VECTOR", 0), Socket("UV", "SOCK_VECTOR", 0)>>],
    [type |-> "SH_NODE_NEW_GEOMETRY", idname |-> "ShaderNodeNewGeometry",
     inputs |-> <<>>,
     outputs |-> <<Socket("Incoming", "SOCK_VECTOR", 0)>>],
    [type |-> "SH_NODE_VECT_TRANSFORM", idname |-> "ShaderNodeVectorTransform",
     inputs |-> <<Socket("Vector", "SOCK_VECTOR", 0)>>,
     outputs |-> <<Socket("Vector", "SOCK_VECTOR", 0)>>],
    [type |-> "SH_NODE_VALUE", idname |-> "ShaderNodeValue",
     inputs |-> <<>>,
     outputs |-> <<Socket("Value", "SOCK_FLOAT", 0)>>],
    [type |-> "SH_NODE_MIX", idname |-> "ShaderNodeMix",
     inputs |-> <<Socket("Factor_Float", "SOCK_FLOAT", 50), Socket("A_Color", "SOCK_RGBA", 50),
                  Socket("B_Color", "SOCK_RGBA", 50)>>,
     outputs |-> <<Socket("Result_Color", "SOCK_RGBA", 0)>>],
    [type |-> "SH_NODE_BSDF_PRINCIPLED", idname |-> "ShaderNodeBsdfPrincipled",
     inputs |-> <<Socket("Base Color", "SOCK_RGBA", 80), Socket("Subsurface", "SOCK_FLOAT", 0),
                  Socket("Subsurface Color", "SOCK_RGBA", 20),
                  Socket("Transmission Roughness", "SOCK_FLOAT", 0),
                  Socket("Normal", "SOCK_VECTOR", 0)>>,
     outputs |-> <<Socket("BSDF", "SOCK_SHADER", 0)>>],
    [type |-> "SH_NODE_OUTPUT_MATERIAL", idname |-> "ShaderNodeOutputMaterial",
     inputs |-> <<Socket("Surface", "SOCK_SHADER", 0)>>,
     outputs |-> <<>>],
    [type |-> "NODE_GROUP", idname |-> "ShaderNodeGroup",
     inputs |-> <<>>,
     outputs |-> <<Socket("Shader", "SOCK_SHADER", 0)>>],
    [type |-> "SH_NODE_BSDF_TRANSPARENT", idname |-> "ShaderNodeBsdfTransparent",
     inputs |-> <<Socket("Color", "SOCK_RGBA", <<100, 100, 100>>)>>,
     outputs |-> <<Socket("BSDF", "SOCK_SHADER", 0)>>],
    [type |-> "SH_NODE_MIX_SHADER", idname |-> "ShaderNodeMixShader",
     inputs |-> <<Socket("Fac", "SOCK_FLOAT", 50), Socket("Shader", "SOCK_SHADER", 0),
                  Socket("Shader_001", "SOCK_SHADER", 0)>>,
     outputs |-> <<Socket("Shader", "SOCK_SHADER", 0)>>],
    [type |-> "SH_NODE_ADD_SHADER", idname |-> "ShaderNodeAddShader",
     inputs |-> <<Socket("Shader", "SOCK_SHADER", 0), Socket("Shader_001", "SOCK_SHADER", 0)>>,
     outputs |-> <<Socket("Shader", "SOCK_SHADER", 0)>>],
    [type |-> "SH_NODE_EEVEE_SPECULAR", idname |-> "ShaderNodeEeveeSpecular",
     inputs |-> <<Socket("Transparency", "SOCK_FLOAT", 0)>>,
     outputs |-> <<Socket("BSDF", "SOCK_SHADER", 0)>>],
    [type |-> "SH_NODE_EMISSION", idname |-> "ShaderNodeEmission",
     inputs |-> <<Socket("Color", "SOCK_RGBA", <<100, 100, 100>>)>>,
     outputs |-> <<Socket("Emission", "SOCK_SHADER", 0)>>],
    [type |-> "NODE_REROUTE", idname |-> "NodeReroute",
     inputs |-> <<Socket("Input", "SOCK_VECTOR", 0)>>,
     outputs |-> <<Socket("Output", "SOCK_VECTOR", 0)>>],
    [type |-> "FN_NODE_INPUT_INT", idname |-> "FunctionNodeInputInt",
     inputs |-> <<>>,
     outputs |-> <<Socket("Integer", "SOCK_INT", 0)>>],
    [type |-> "SH_NODE_MATH", idname |-> "ShaderNodeMath",
     inputs |-> <<Socket("Value", "SOCK_FLOAT", 50), Socket("Value_001", "SOCK_FLOAT", 50)>>,
     outputs |-> <<Socket("Value", "SOCK_FLOAT", 0)>>],
    [type |-> "GEO_NODE_OBJECT_INFO", idname |-> "GeometryNodeObjectInfo",
     inputs |-> <<>>,
     outputs |-> <<Socket("Rotation", "SOCK_VECTOR", 0)>>],
    [type |-> "GEO_NODE_TRANSFORM_GEOMETRY", idname |-> "GeometryNodeTransform",
     inputs |-> <<Socket("Rotation", "SOCK_VECTOR", 0)>>,
     outputs |-> <<Socket("Geometry", "SOCK_GEOMETRY", 0)>>],
    [type |-> "FN_NODE_EULER_TO_ROTATION", idname |-> "FunctionNodeEulerToRotation",
     inputs |-> <<Socket("Euler", "SOCK_VECTOR", 0)>>,
     outputs |-> <<Socket("Rotation", "SOCK_ROTATION", 0)>>],
    [type |-> "FN_NODE_ROTATION_TO_EULER", idname |-> "FunctionNodeRotationToEuler",
     inputs |-> <<Socket("Rotation", "SOCK_ROTATION", 0)>>,
     outputs |-> <<Socket("Euler", "SOCK_VECTOR", 0)>>] }

\* a new node of a type, at address ptr
NewNode(nt, ptr) ==
  [ptr |-> ptr, type |-> nt.type, idname |-> nt.idname, inputs |-> nt.inputs,
   outputs |-> nt.outputs]

\* a tree without nodes
EmptyNodeTree == [type |-> "NTREE_SHADER", nodes |-> <<>>, links |-> <<>>, next_ptr |-> 1]

\* the node of address ptr
NodeAt(tree, ptr) ==
  tree.nodes[CHOOSE i \in 1..Len(tree.nodes) : tree.nodes[i].ptr = ptr]

\* the link of address ptr
LinkAt(tree, ptr) ==
  tree.links[CHOOSE i \in 1..Len(tree.links) : tree.links[i].ptr = ptr]

\* the sockets of a side of a node
Sockets(node, in_out) == IF in_out = "SOCK_IN" THEN node.inputs ELSE node.outputs

\* nodeFindSocket(node, in_out, identifier): the socket, nullptr ("") when there is none
nodeFindSocket(node, in_out, identifier) ==
  IF \E i \in 1..Len(Sockets(node, in_out)) : Sockets(node, in_out)[i].identifier = identifier
    THEN identifier
  ELSE ""

\* the socket record behind nodeFindSocket
SocketAt(node, in_out, identifier) ==
  LET socks == Sockets(node, in_out)
  IN socks[CHOOSE i \in 1..Len(socks) : socks[i].identifier = identifier]

\* node with f applied to the socket of the identifier
OnSocket(tree, ptr, in_out, identifier, f(_)) ==
  [tree EXCEPT !.nodes =
     [i \in 1..Len(tree.nodes) |->
        IF tree.nodes[i].ptr # ptr THEN tree.nodes[i]
        ELSE LET map(socks) == [k \in 1..Len(socks) |->
                                  IF socks[k].identifier = identifier THEN f(socks[k])
                                  ELSE socks[k]]
             IN IF in_out = "SOCK_IN"
                  THEN [tree.nodes[i] EXCEPT !.inputs = map(@)]
                ELSE [tree.nodes[i] EXCEPT !.outputs = map(@)]]]

\* bNodeSocket::link of an input socket: the link that enters it, nullptr (0) when none does
socket_link(tree, node_ptr, identifier) ==
  LET entering == {i \in 1..Len(tree.links) :
                     tree.links[i].tonode = node_ptr /\ tree.links[i].tosock = identifier}
  IN IF entering = {} THEN 0 ELSE tree.links[Min(entering)].ptr

\* the rewrite after a primitive that leaves the tree as after
Issue(G, prim, arg, after) ==
  [tree |-> after,
   log |-> Append(G.log, [prim |-> prim, arg |-> arg, before |-> G.tree, after |-> after])]

\* nodeAddStaticNode(C, ntree, type) and nodeAddNode(C, ntree, idname): a node of the type,
\* with the default sockets of the type, at the end of ntree->nodes. The new node has the
\* address G.tree.next_ptr.
nodeAddNode(G, key) ==
  LET nt == CHOOSE t \in node_types : t.type = key \/ t.idname = key
  IN Issue(G, "nodeAddNode", <<G.tree.next_ptr>>,
           [G.tree EXCEPT !.nodes = Append(@, NewNode(nt, G.tree.next_ptr)),
                          !.next_ptr = @ + 1])

nodeAddStaticNode(G, type) == nodeAddNode(G, type)

\* nodeAddStaticSocket(ntree, node, in_out, type, subtype, identifier, name): a socket at
\* the end of the list of its side
nodeAddStaticSocket(G, node_ptr, in_out, type, identifier) ==
  Issue(G, "nodeAddStaticSocket", <<node_ptr, in_out, identifier>>,
        [G.tree EXCEPT !.nodes =
           [i \in 1..Len(G.tree.nodes) |->
              IF G.tree.nodes[i].ptr # node_ptr THEN G.tree.nodes[i]
              ELSE IF in_out = "SOCK_IN"
                THEN [G.tree.nodes[i] EXCEPT !.inputs = Append(@, Socket(identifier, type, 0))]
              ELSE [G.tree.nodes[i] EXCEPT !.outputs = Append(@, Socket(identifier, type, 0))]]])

\* links without the links that touch the socket
Detached(links, node_ptr, in_out, identifier) ==
  SelectSeq(links,
            LAMBDA l : ~ IF in_out = "SOCK_IN"
                           THEN l.tonode = node_ptr /\ l.tosock = identifier
                         ELSE l.fromnode = node_ptr /\ l.fromsock = identifier)

\* the sockets of a list without the socket of the identifier
WithoutSocket(socks, identifier) == SelectSeq(socks, LAMBDA s : s.identifier # identifier)

\* nodeRemoveSocket(ntree, node, sock): the socket goes, and every link attached to it
nodeRemoveSocket(G, node_ptr, in_out, identifier) ==
  Issue(G, "nodeRemoveSocket", <<node_ptr, in_out, identifier>>,
        [G.tree EXCEPT
           !.links = Detached(@, node_ptr, in_out, identifier),
           !.nodes =
             [i \in 1..Len(G.tree.nodes) |->
                IF G.tree.nodes[i].ptr # node_ptr THEN G.tree.nodes[i]
                ELSE IF in_out = "SOCK_IN"
                  THEN [G.tree.nodes[i] EXCEPT !.inputs = WithoutSocket(@, identifier)]
                ELSE [G.tree.nodes[i] EXCEPT !.outputs = WithoutSocket(@, identifier)]]])

\* nodeAddLink, had it kept the links that tosock already has
nodeAddLink_keeps_links(G, fromnode, fromsock, tonode, tosock) ==
  Issue(G, "nodeAddLink", <<fromnode, fromsock, tonode, tosock>>,
        [G.tree EXCEPT
           !.links = Append(@, [ptr |-> G.tree.next_ptr, fromnode |-> fromnode,
                                fromsock |-> fromsock, tonode |-> tonode, tosock |-> tosock]),
           !.next_ptr = @ + 1])

\* nodeAddLink(ntree, fromnode, fromsock, tonode, tosock): a link that tosock already has
\* is removed first; the new link goes to the end of ntree->links and has the address
\* G.tree.next_ptr
nodeAddLink(G, fromnode, fromsock, tonode, tosock) ==
  Issue(G, "nodeAddLink", <<fromnode, fromsock, tonode, tosock>>,
        [G.tree EXCEPT
           !.links = Append(Detached(@, tonode, "SOCK_IN", tosock),
                            [ptr |-> G.tree.next_ptr, fromnode |-> fromnode,
                             fromsock |-> fromsock, tonode |-> tonode, tosock |-> tosock]),
           !.next_ptr = @ + 1])

\* nodeRemLink(ntree, link): the link leaves ntree->links (a link that is no longer in
\* the list leaves nothing)
nodeRemLink(G, link_ptr) ==
  Issue(G, "nodeRemLink", <<link_ptr>>,
        [G.tree EXCEPT !.links = SelectSeq(@, LAMBDA l : l.ptr # link_ptr)])

\* the address of the element after the one of address ptr in a list, nullptr (0) at
\* the end of the list or when the element is gone
NextIn(list, ptr) ==
  LET at == {i \in 1..Len(list) : list[i].ptr = ptr}
  IN IF at = {} \/ Min(at) = Len(list) THEN 0 ELSE list[Min(at) + 1].ptr

\* list->first
First(list) == IF list = <<>> THEN 0 ELSE list[1].ptr

(***************************************************************************)
(* The node graph rewrites.                                                *)
(***************************************************************************)
\* the loop over ntree->links of version_replace_texcoord_normal_socket (lines 1075-1093);
\* link_ptr is the link of this round. LISTBASE_FOREACH_MUTABLE reads the next link before
\* the body runs.
RECURSIVE texcoord_links(_, _, _, _)
texcoord_links(G, link_ptr, geometry_node, transform_node) ==
  IF link_ptr = 0 THEN G
  ELSE LET tree == G.tree
           link == LinkAt(tree, link_ptr)
           next == NextIn(tree.links, link_ptr)
       IN IF /\ NodeAt(tree, link.fromnode).type = "SH_NODE_TEX_COORD"
             /\ link.fromsock = "Normal"
            THEN LET first == geometry_node = 0
                     geometry == IF first THEN tree.next_ptr ELSE geometry_node
                     transform == IF first THEN tree.next_ptr + 1 ELSE transform_node
                     G1 == nodeAddStaticNode(G, "SH_NODE_NEW_GEOMETRY")
                     G2 == nodeAddStaticNode(G1, "SH_NODE_VECT_TRANSFORM")
                     G3 == nodeAddLink(
                             G2, geometry,
                             nodeFindSocket(NodeAt(G2.tree, geometry), "SOCK_OUT", "Incoming"),
                             transform,
                             nodeFindSocket(NodeAt(G2.tree, transform), "SOCK_IN", "Vector"))
                     G4 == IF first THEN G3 ELSE G
                     G5 == nodeAddLink(
                             G4, transform,
                             nodeFindSocket(NodeAt(G4.tree, transform), "SOCK_OUT", "Vector"),
                             link.tonode, link.tosock)
                     G6 == nodeRemLink(G5, link.ptr)
                 IN texcoord_links(G6, next, geometry, transform)
          ELSE texcoord_links(G, next, geometry_node, transform_node)

version_replace_texcoord_normal_socket(G) == texcoord_links(G, First(G.tree.links), 0, 0)

\* version_principled_transmission_roughness, had it taken the socket out of node->inputs
\* and left ntree->links alone
RECURSIVE transmission_roughness_keeps_links(_, _)
transmission_roughness_keeps_links(G, node_ptr) ==
  IF node_ptr = 0 THEN G
  ELSE LET node == NodeAt(G.tree, node_ptr)
           sock == nodeFindSocket(node, "SOCK_IN", "Transmission Roughness")
           nodes == G.tree.nodes
           G1 == IF node.type = "SH_NODE_BSDF_PRINCIPLED" /\ sock # ""
                   THEN [tree |-> [G.tree EXCEPT !.nodes =
                                     [i \in 1..Len(nodes) |->
                                        IF nodes[i].ptr # node_ptr THEN nodes[i]
                                        ELSE [nodes[i] EXCEPT
                                                !.inputs = WithoutSocket(nodes[i].inputs, sock)]]],
                         log |-> G.log]
                 ELSE G
       IN transmission_roughness_keeps_links(G1, NextIn(G1.tree.nodes, node_ptr))

version_principled_transmission_roughness_keeps_links(G) ==
  transmission_roughness_keeps_links(G, First(G.tree.nodes))

\* the loop over ntree->nodes of version_principled_transmission_roughness (1099-1107)
RECURSIVE transmission_roughness_nodes(_, _)
transmission_roughness_nodes(G, node_ptr) ==
  IF node_ptr = 0 THEN G
  ELSE LET node == NodeAt(G.tree, node_ptr)
           sock == nodeFindSocket(node, "SOCK_IN", "Transmission Roughness")
           G1 == IF node.type = "SH_NODE_BSDF_PRINCIPLED" /\ sock # ""
                   THEN nodeRemoveSocket(G, node_ptr, "SOCK_IN", sock)
                 ELSE G
       IN transmission_roughness_nodes(G1, NextIn(G1.tree.nodes, node_ptr))

version_principled_transmission_roughness(G) ==
  transmission_roughness_nodes(G, First(G.tree.nodes))

\* the tree with the value of an input socket set
SetValue(G, node_ptr, identifier, value) ==
  [G EXCEPT !.tree = OnSocket(@, node_ptr, "SOCK_IN", identifier,
                              LAMBDA s : [s EXCEPT !.value = value])]

\* interp_v4_v4v4(r, a, b, t): (1 - t) * a + t * b, in hundredths
interp_v4_v4v4(a, b, t) == ((100 - t) * a + t * b) \div 100

\* the body of the loop of version_principled_bsdf_subsurface for one node (1667-1742)
subsurface_node(G, node_ptr) ==
  LET tree == G.tree
      node == NodeAt(tree, node_ptr)
  IN IF node.type # "SH_NODE_BSDF_PRINCIPLED" THEN G
     ELSE IF nodeFindSocket(node, "SOCK_IN", "Subsurface Scale") # "" THEN G
     ELSE
       LET scale_in == "Subsurface Scale"
           G1 == nodeAddStaticSocket(G, node_ptr, "SOCK_IN", "SOCK_FLOAT", scale_in)
           subsurf == nodeFindSocket(node, "SOCK_IN", "Subsurface")
           subsurf_val == SocketAt(node, "SOCK_IN", subsurf).value
           subsurf_link == socket_link(tree, node_ptr, subsurf)
           unused == subsurf_link = 0 /\ subsurf_val = 0
           G2 == SetValue(G1, node_ptr, scale_in, IF unused THEN 5 ELSE subsurf_val)
           base_col == nodeFindSocket(node, "SOCK_IN", "Base Color")
           subsurf_col == nodeFindSocket(node, "SOCK_IN", "Subsurface Color")
           base_col_val == SocketAt(node, "SOCK_IN", base_col).value
           subsurf_col_val == SocketAt(node, "SOCK_IN", subsurf_col).value
           base_col_link == socket_link(tree, node_ptr, base_col)
           subsurf_col_link == socket_link(tree, node_ptr, subsurf_col)
           mix == G2.tree.next_ptr
           M0 == nodeAddStaticNode(G2, "SH_NODE_MIX")
           a_in == nodeFindSocket(NodeAt(M0.tree, mix), "SOCK_IN", "A_Color")
           b_in == nodeFindSocket(NodeAt(M0.tree, mix), "SOCK_IN", "B_Color")
           fac_in == nodeFindSocket(NodeAt(M0.tree, mix), "SOCK_IN", "Factor_Float")
           result_out == nodeFindSocket(NodeAt(M0.tree, mix), "SOCK_OUT", "Result_Color")
           M1 == SetValue(SetValue(SetValue(M0, mix, a_in, base_col_val),
                                   mix, b_in, subsurf_col_val),
                          mix, fac_in, subsurf_val)
           M2 == IF base_col_link = 0 THEN M1
                 ELSE nodeRemLink(
                        nodeAddLink(M1, LinkAt(tree, base_col_link).fromnode,
                                    LinkAt(tree, base_col_link).fromsock, mix, a_in),
                        base_col_link)
           M3 == IF subsurf_col_link = 0 THEN M2
                 ELSE nodeRemLink(
                        nodeAddLink(M2, LinkAt(tree, subsurf_col_link).fromnode,
                                    LinkAt(tree, subsurf_col_link).fromsock, mix, b_in),
                        subsurf_col_link)
           M4 == IF subsurf_link = 0 THEN M3
                 ELSE nodeRemLink(
                        nodeAddLink(
                          nodeAddLink(M3, LinkAt(tree, subsurf_link).fromnode,
                                      LinkAt(tree, subsurf_link).fromsock, mix, fac_in),
                          LinkAt(tree, subsurf_link).fromnode,
                          LinkAt(tree, subsurf_link).fromsock, node_ptr, scale_in),
                        subsurf_link)
           M5 == nodeAddLink(M4, mix, result_out, node_ptr, base_col)
           G3 == IF subsurf_link # 0 \/ subsurf_col_link # 0 \/ base_col_link # 0
                   THEN M5 ELSE G2
           G4 == SetValue(G3, node_ptr, base_col,
                          interp_v4_v4v4(base_col_val, subsurf_col_val, subsurf_val))
           G5 == SetValue(G4, node_ptr, subsurf, 100)
       IN IF unused THEN G2
          ELSE nodeRemoveSocket(G5, node_ptr, "SOCK_IN", subsurf_col)

\* the loop over ntree->nodes of version_principled_bsdf_subsurface; LISTBASE_FOREACH
\* reads the next node after the body ran
RECURSIVE subsurface_nodes(_, _)
subsurface_nodes(G, node_ptr) ==
  IF node_ptr = 0 THEN G
  ELSE LET G1 == subsurface_node(G, node_ptr)
       IN subsurface_nodes(G1, NextIn(G1.tree.nodes, node_ptr))

version_principled_bsdf_subsurface(G) == subsurface_nodes(G, First(G.tree.nodes))

\* the links of a tree with f applied to the link of address link_ptr
OnLink(G, link_ptr, f(_)) ==
  [G EXCEPT !.tree.links =
     [i \in 1..Len(@) |-> IF @[i].ptr = link_ptr THEN f(@[i]) ELSE @[i]]]

\* the loop over ntree.links of change_input_socket_to_rotation_type (lines 1814-1840)
RECURSIVE change_input_links(_, _, _, _)
change_input_links(G, link_ptr, node_ptr, socket) ==
  IF link_ptr = 0 THEN G
  ELSE LET tree == G.tree
           link == LinkAt(tree, link_ptr)
           next == NextIn(tree.links, link_ptr)
           fromnode == NodeAt(tree, link.fromnode)
           fromsock == SocketAt(fromnode, "SOCK_OUT", link.fromsock)
           convert == tree.next_ptr
           G1 == nodeAddNode(G, "FunctionNodeEulerToRotation")
           G2 == OnLink(G1, link_ptr,
                        LAMBDA l : [l EXCEPT
                          !.tonode = convert,
                          !.tosock = nodeFindSocket(NodeAt(G1.tree, convert), "SOCK_IN",
                                                    "Euler")])
           G3 == nodeAddLink(G2, convert,
                             nodeFindSocket(NodeAt(G2.tree, convert), "SOCK_OUT", "Rotation"),
                             node_ptr, socket)
       IN IF link.tonode # node_ptr \/ link.tosock # socket
            THEN change_input_links(G, next, node_ptr, socket)
          ELSE IF /\ fromsock.type \in {"SOCK_ROTATION", "SOCK_VECTOR", "SOCK_FLOAT"}
                  /\ fromnode.type # "NODE_REROUTE"
            THEN change_input_links(G, next, node_ptr, socket)
          ELSE IF fromnode.idname = "FunctionNodeEulerToRotation"
            THEN change_input_links(G, next, node_ptr, socket)
          ELSE change_input_links(G3, next, node_ptr, socket)

change_input_socket_to_rotation_type(G, node_ptr, socket) ==
  IF SocketAt(NodeAt(G.tree, node_ptr), "SOCK_IN", socket).type = "SOCK_ROTATION" THEN G
  ELSE LET G1 == [G EXCEPT !.tree = OnSocket(@, node_ptr, "SOCK_IN", socket,
                                             LAMBDA s : [s EXCEPT !.type = "SOCK_ROTATION"])]
       IN change_input_links(G1, First(G1.tree.links), node_ptr, socket)

\* the loop over ntree.links of change_output_socket_to_rotation_type (lines 1848-1873)
RECURSIVE change_output_links(_, _, _, _)
change_output_links(G, link_ptr, node_ptr, socket) ==
  IF link_ptr = 0 THEN G
  ELSE LET tree == G.tree
           link == LinkAt(tree, link_ptr)
           next == NextIn(tree.links, link_ptr)
           tonode == NodeAt(tree, link.tonode)
           tosock == SocketAt(tonode, "SOCK_IN", link.tosock)
           convert == tree.next_ptr
           G1 == nodeAddNode(G, "FunctionNodeRotationToEuler")
           G2 == OnLink(G1, link_ptr,
                        LAMBDA l : [l EXCEPT
                          !.fromnode = convert,
                          !.fromsock = nodeFindSocket(NodeAt(G1.tree, convert), "SOCK_OUT",
                                                      "Euler")])
           G3 == nodeAddLink(G2, node_ptr, socket, convert,
                             nodeFindSocket(NodeAt(G2.tree, convert), "SOCK_IN", "Rotation"))
       IN IF link.fromnode # node_ptr \/ link.fromsock # socket
            THEN change_output_links(G, next, node_ptr, socket)
          ELSE IF /\ tosock.type \in {"SOCK_ROTATION", "SOCK_VECTOR"}
                  /\ tonode.type # "NODE_REROUTE"
            THEN change_output_links(G, next, node_ptr, socket)
          ELSE IF tonode.idname = "FunctionNodeRotationToEuler"
            THEN change_output_links(G, next, node_ptr, socket)
          ELSE change_output_links(G3, next, node_ptr, socket)

change_output_socket_to_rotation_type(G, node_ptr, socket) ==
  change_output_links(G, First(G.tree.links), node_ptr, socket)

\* the loop over ntree.nodes of version_geometry_nodes_use_rotation_socket (1878-1894);
\* LISTBASE_FOREACH_MUTABLE reads the next node before the body runs
RECURSIVE use_rotation_socket_nodes(_, _)
use_rotation_socket_nodes(G, node_ptr) ==
  IF node_ptr = 0 THEN G
  ELSE LET node == NodeAt(G.tree, node_ptr)
           next == NextIn(G.tree.nodes, node_ptr)
           G1 == IF node.idname \in {"GeometryNodeInstanceOnPoints",
                                     "GeometryNodeRotateInstances", "GeometryNodeTransform"}
                   THEN change_input_socket_to_rotation_type(
                          G, node_ptr, nodeFindSocket(node, "SOCK_IN", "Rotation"))
                 ELSE G
           G2 == IF node.idname \in {"GeometryNodeDistributePointsOnFaces",
                                     "GeometryNodeObjectInfo",
                                     "GeometryNodeInputInstanceRotation"}
                   THEN change_output_socket_to_rotation_type(
                          G1, node_ptr, nodeFindSocket(node, "SOCK_OUT", "Rotation"))
                 ELSE G1
       IN use_rotation_socket_nodes(G2, next)

version_geometry_nodes_use_rotation_socket(G) ==
  use_rotation_socket_nodes(G, First(G.tree.nodes))

\* nodeRemoveNode(bmain, ntree, node, do_id_user): the node goes, and every link that
\* touches one of its sockets
nodeRemoveNode(G, node_ptr) ==
  Issue(G, "nodeRemoveNode", <<node_ptr>>,
        [G.tree EXCEPT
           !.links = SelectSeq(@, LAMBDA l : l.fromnode # node_ptr /\ l.tonode # node_ptr),
           !.nodes = SelectSeq(@, LAMBDA n : n.ptr # node_ptr)])

(***************************************************************************)
(* Stored node graphs.                                                     *)
(***************************************************************************)
\* the nodes of a stored tree: one of each idname, at the addresses 1, 2, ...
StoredNodes(idnames) ==
  [i \in 1..Len(idnames) |-> NewNode(CHOOSE t \in node_types : t.idname = idnames[i], i)]

\* every input socket of the nodes, as <<node, identifier>>, in list order
RECURSIVE InputsOf(_)
InputsOf(nodes) ==
  IF nodes = <<>> THEN <<>>
  ELSE [k \in 1..Len(nodes[1].inputs) |-> <<nodes[1].ptr, nodes[1].inputs[k].identifier>>]
         \o InputsOf(Tail(nodes))

\* every output socket of the nodes, as <<node, identifier>>
OutputsOf(nodes) ==
  UNION {{<<nodes[i].ptr, nodes[i].outputs[k].identifier>> : k \in 1..Len(nodes[i].outputs)}
           : i \in 1..Len(nodes)}

\* no link: the input is not connected
Unlinked == <<0, "">>

\* the stored tree of the nodes where wiring[k] is the output that feeds the k-th input;
\* subsurface is the value of the Subsurface input of the Principled BSDF nodes
StoredTree(type, nodes, wiring, subsurface) ==
  LET ins == InputsOf(nodes)
      linked == {k \in 1..Len(ins) : wiring[k] # Unlinked}
      nth(j) == CHOOSE k \in linked : Cardinality({m \in linked : m < k}) = j - 1
      valued == [type |-> type, nodes |-> nodes, links |-> <<>>, next_ptr |-> 0]
  IN [type |-> type,
      nodes |-> [i \in 1..Len(nodes) |->
                   IF nodes[i].type = "SH_NODE_BSDF_PRINCIPLED"
                     THEN NodeAt(OnSocket(valued, nodes[i].ptr, "SOCK_IN", "Subsurface",
                                          LAMBDA s : [s EXCEPT !.value = subsurface]),
                                 nodes[i].ptr)
                   ELSE nodes[i]],
      links |-> [j \in 1..Cardinality(linked) |->
                   [ptr |-> Len(nodes) + j,
                    fromnode |-> wiring[nth(j)][1], fromsock |-> wiring[nth(j)][2],
                    tonode |-> ins[nth(j)][1], tosock |-> ins[nth(j)][2]]],
      next_ptr |-> Len(nodes) + Cardinality(linked) + 1]

\* the stored trees of the nodes: every input has at most one link, from an output of a
\* node before it in the list, the second operand of a Math node has none, and the tree
\* has at most MaxLinks links
StoredTrees(type, idnames, subsurfaces) ==
  LET nodes == StoredNodes(idnames)
      ins == InputsOf(nodes)
  IN {StoredTree(type, nodes, wiring, subsurface) :
        wiring \in {w \in [1..Len(ins) -> OutputsOf(nodes) \cup {Unlinked}] :
                      /\ \A k \in 1..Len(ins) : w[k] # Unlinked => w[k][1] < ins[k][1]
                      /\ \A k \in 1..Len(ins) : ins[k][2] = "Value_001" => w[k] = Unlinked
                      /\ Cardinality({k \in 1..Len(ins) : w[k] # Unlinked}) <= MaxLinks},
        subsurface \in subsurfaces}

\* a shader tree as of a material or of a spot light
ShaderTrees ==
  StoredTrees("NTREE_SHADER",
              <<"ShaderNodeTexCoord", "ShaderNodeValue", "ShaderNodeBsdfPrincipled">>,
              {0, 50})

\* a geometry node group
GeometryTrees ==
  StoredTrees("NTREE_GEOMETRY",
              <<"GeometryNodeObjectInfo", "FunctionNodeInputInt", "NodeReroute",
                "GeometryNodeTransform", "ShaderNodeMath">>,
              {0})

(***************************************************************************)
(* Stored documents.                                                       *)
(***************************************************************************)
TreeIds == {1, 2}

ItemNames == <<"A", "B", "C", "D", "E", "F", "G", "H", "I", "J", "K", "L", "M", "N", "O",
               "P", "Q", "R", "S", "T", "U", "V", "W", "X", "Y", "Z", "AA", "AB", "AC", "AD",
               "AE", "AF", "AG", "AH", "AI", "AJ", "AK", "AL", "AM", "AN">>

\* a legacy socket of a list; k is its position
LegacySocket(prefix, k, style) ==
  [name |-> ItemNames[k],
   identifier |-> <<prefix, k>>,
   idname |-> style.idname,
   flag |-> style.legacy_flag,
   attribute_domain |-> k,
   default_value |-> <<"value of", prefix, k>>]

LegacyList(prefix, n, style) == [k \in 1..n |-> LegacySocket(prefix, k, style)]

\* how the sockets of a stored document look: identifiers, type names, flags
Styles ==
  { [ids |-> "Socket_", idname |-> "NodeSocketFloat", legacy_flag |-> {}],
    [ids |-> "Input_", idname |-> "NodeSocketFloatFactor",
     legacy_flag |-> {"SOCK_HIDE_VALUE"}] }

\* the flag of a stored interface socket of kind "I" (input), "O" (output), "B" (both)
KindFlag(kind) ==
  CASE kind = "I" -> {"NODE_INTERFACE_SOCKET_INPUT"}
    [] kind = "O" -> {"NODE_INTERFACE_SOCKET_OUTPUT"}
    [] kind = "B" -> {"NODE_INTERFACE_SOCKET_INPUT", "NODE_INTERFACE_SOCKET_OUTPUT"}

StoredSocket(kind, ptr, style) ==
  [item_type |-> "NODE_INTERFACE_SOCKET",
   ptr |-> ptr,
   name |-> ItemNames[ptr],
   identifier |-> <<style.ids, ptr - 2>>,
   socket_type |-> style.idname,
   flag |-> KindFlag(kind),
   attribute_domain |-> 0,
   socket_data |-> <<"value of", style.ids, ptr - 2>>]

\* the kinds of the sockets of a panel nested in a panel of a panel
Nested == <<"I", "O">>

\* a stored root panel: kinds names its items ("P": a panel whose items are of the kinds
\* child, where "P" is a panel with sockets of the kinds Nested), flag is its flag; the
\* root has address 1 and the items the addresses after it
StoredRoot(kinds, child, flag, style) ==
  LET below == 1 + Len(kinds) + Len(kinds) * Len(child)
      Panel(ptr, items) ==
        [item_type |-> "NODE_INTERFACE_PANEL", ptr |-> ptr, name |-> ItemNames[ptr],
         flag |-> {}, items |-> items]
      Child(i, j) ==
        LET at == (i - 1) * Len(child) + j
        IN IF child[j] = "P"
             THEN Panel(1 + Len(kinds) + at,
                        [k \in 1..Len(Nested) |->
                           StoredSocket(Nested[k], below + (at - 1) * Len(Nested) + k, style)])
           ELSE StoredSocket(child[j], 1 + Len(kinds) + at, style)
  IN [item_type |-> "NODE_INTERFACE_PANEL",
      ptr |-> 1,
      name |-> "root_panel",
      flag |-> flag,
      items |->
        [i \in 1..Len(kinds) |->
           IF kinds[i] = "P"
             THEN Panel(1 + i, [j \in 1..Len(child) |-> Child(i, j)])
           ELSE StoredSocket(kinds[i], 1 + i, style)]]

\* a stored interface; next_uid is above the number of every "Socket_%d" identifier
StoredInterface(kinds, child, flag, style) ==
  [root_panel |-> StoredRoot(kinds, child, flag, style),
   next_uid |-> IF style.ids = "Socket_"
                  THEN Len(kinds) * (1 + Len(child))
                       + (IF "P" \in Range(child)
                            THEN Len(kinds) * Len(child) * Len(Nested) ELSE 0)
                ELSE 0]

\* the interface of a file written before there was one
EmptyInterface ==
  [root_panel |-> [item_type |-> "NODE_INTERFACE_PANEL", ptr |-> 1, name |-> "root_panel",
                   flag |-> {}, items |-> <<>>],
   next_uid |-> 0]

\* all sockets of a panel come before its panels
SocketsAbovePanels(items) ==
  \A i, j \in 1..Len(items) : (IsPanel(items[i]) /\ IsSocket(items[j])) => j < i

KindSeqs(n) == UNION {[1..m -> {"I", "O", "B", "P"}] : m \in 0..n}

\* the root panels that a file of the stored version can hold: since 400.33 the items are
\* kept in order, so that a panel without NODE_INTERFACE_PANEL_ALLOW_SOCKETS_AFTER_PANELS
\* has its sockets above its panels; older files hold the items in any order
StoredOrderOK(iface) ==
  \/ ~MAIN_VERSION_FILE_ATLEAST(400, 33)
  \/ "NODE_INTERFACE_PANEL_ALLOW_SOCKETS_AFTER_PANELS" \in iface.root_panel.flag
  \/ SocketsAbovePanels(iface.root_panel.items)

PanelFlags == {{}, {"NODE_INTERFACE_PANEL_ALLOW_SOCKETS_AFTER_PANELS"}}

\* where the trees of a stored document live: tree 1 is a node group of bmain->nodetrees,
\* tree 2 is embedded in a material or is a second node group
Layouts ==
  { [nodetrees |-> <<1>>, embedded |-> <<[owner |-> "material", nodetree |-> 2]>>],
    [nodetrees |-> <<1, 2>>, embedded |-> <<[owner |-> "material", nodetree |-> 0]>>] }

\* the document read from a file. Files written before 400.20 have no tree interface, only
\* the legacy lists (of the sizes old_sizes: <<outputs, inputs>>). Newer files have the
\* interface (root items of the kinds of kinds_set, panels with items of the kinds of
\* childs) and, written from it for forward compatibility, legacy lists (new_sizes).
StoredDocument(layouts, old_sizes, new_sizes, styles, kinds_set, childs) ==
  /\ \E layout \in layouts :
       /\ nodetrees = layout.nodetrees
       /\ embedded = layout.embedded
  /\ \E style \in styles :
       IF MAIN_VERSION_FILE_ATLEAST(400, 20)
         THEN \E size \in new_sizes, kinds \in kinds_set, child \in childs,
                 flag \in PanelFlags :
                LET iface == StoredInterface(kinds, child, flag, style)
                IN /\ StoredOrderOK(iface)
                   /\ kinds = <<>> => size = <<0, 0>>
                   /\ tree_interface = [t \in TreeIds |-> iface]
                   /\ inputs_legacy = [t \in TreeIds |-> LegacyList("Input_", size[2], style)]
                   /\ outputs_legacy =
                        [t \in TreeIds |-> LegacyList("Output_", size[1], style)]
       ELSE \E size \in old_sizes :
              /\ tree_interface = [t \in TreeIds |-> EmptyInterface]
              /\ inputs_legacy = [t \in TreeIds |-> LegacyList("Input_", size[2], style)]
              /\ outputs_legacy = [t \in TreeIds |-> LegacyList("Output_", size[1], style)]
  /\ stored = [t \in TreeIds |-> [tree_interface |-> tree_interface[t],
                                  inputs_legacy |-> inputs_legacy[t],
                                  outputs_legacy |-> outputs_legacy[t]]]

StartLoad ==
  /\ pc = 1
  /\ load = 1
  /\ executed = <<>>
  /\ walked = <<>>
  /\ ntree = EmptyNodeTree
  /\ issued = <<>>
  /\ calls = <<>>
  /\ alpha = <<>>
  /\ bmain = <<>>
  /\ reports = <<>>
  /\ ime = <<>>

\* the style of the documents that exercise the gates
GateStyle == CHOOSE style \in Styles : style.ids = "Socket_"

\* every stored version around the guards, with a few documents
Init ==
  /\ versionfile \in 399..(402 + MaxNewerFiles)
  /\ subversionfile \in 0..MaxSubversion
  /\ StoredDocument(Layouts, {<<1, 1>>}, {<<1, 1>>}, {GateStyle}, {<<"B", "O">>}, {<<>>})
  /\ StartLoad

(***************************************************************************)
(* The load: one step per block of the registry.                           *)
(***************************************************************************)
Block == Registry[pc]
InLoad == pc <= Len(Registry)

\* the lines of the blocks whose effect on the node tree interfaces is modelled
InterfaceBlocks == {2894, 2905, 2933, 2953, 3174, 3360}

\* the body of the current block runs: it is logged with the walks it makes
Runs(line) ==
  /\ InLoad
  /\ Block.line = line
  /\ BlockRuns(Block)
  /\ pc' = pc + 1
  /\ executed' = Append(executed, pc)
  /\ walked' = [w \in 1..Len(Block.walks) |->
                  <<Block.walks[w][2], WalkTrees(Block.walks[w][1])>>]
  /\ UNCHANGED <<versionfile, subversionfile, load, nodetrees, embedded, stored,
                 ntree, issued, calls, alpha, othervars>>

\* the gate of the current block is closed
SkipBlock ==
  /\ InLoad
  /\ ~BlockRuns(Block)
  /\ pc' = pc + 1
  /\ walked' = <<>>
  /\ UNCHANGED <<versionfile, subversionfile, load, executed, docvars, ntree, issued,
                 calls, alpha, othervars>>

\* a block that leaves the node tree interfaces alone
RunBlock ==
  /\ InLoad
  /\ Block.line \notin InterfaceBlocks
  /\ Runs(Block.line)
  /\ UNCHANGED <<tree_interface, inputs_legacy, outputs_legacy>>

\* f applied to the interface of every tree that the walk w of the current block visits
OnWalkedTrees(w, f(_, _)) ==
  [t \in TreeIds |->
     IF t \in Range(WalkTrees(Block.walks[w][1])) THEN f(t, tree_interface[t])
     ELSE tree_interface[t]]

\* the lists of the trees that the first walk of the current block visits are freed
FreeLegacy(lists) ==
  [t \in TreeIds |-> IF t \in Range(WalkTrees(Block.walks[1][1])) THEN <<>> ELSE lists[t]]

\* 400.20: convert old socket lists into new interface items (lines 2894-2904)
ConvertSocketLists ==
  /\ Runs(2894)
  /\ tree_interface' =
       OnWalkedTrees(1, LAMBDA t, iface :
         versioning_convert_node_tree_socket_lists_to_interface(
           iface, inputs_legacy[t], outputs_legacy[t]))
  /\ inputs_legacy' = FreeLegacy(inputs_legacy)
  /\ outputs_legacy' = FreeLegacy(outputs_legacy)

\* 400.20, else: free the legacy sockets written for forward compatibility (2905-2931)
FreeLegacySockets ==
  /\ Runs(2905)
  /\ inputs_legacy' = FreeLegacy(inputs_legacy)
  /\ outputs_legacy' = FreeLegacy(outputs_legacy)
  /\ UNCHANGED tree_interface

\* 400.22: initialize root panel flags (lines 2933-2939)
InitRootPanelFlags ==
  /\ Runs(2933)
  /\ tree_interface' =
       OnWalkedTrees(1, LAMBDA t, iface :
         [iface EXCEPT !.root_panel.flag = @ \cup {"NODE_INTERFACE_PANEL_ALLOW_CHILD_PANELS"}])
  /\ UNCHANGED <<inputs_legacy, outputs_legacy>>

\* 400.24: convert sockets with both input and output flag into two separate sockets
\* (lines 2989-3010; the second walk of the block)
SplitSockets ==
  /\ Runs(2953)
  /\ tree_interface' =
       OnWalkedTrees(2, LAMBDA t, iface : split_sockets(iface, sockets_to_split(iface)))
  /\ UNCHANGED <<inputs_legacy, outputs_legacy>>

\* 400.33: fix node group socket order by sorting outputs and inputs (lines 3174-3179)
SortSockets ==
  /\ Runs(3174)
  /\ tree_interface' =
       OnWalkedTrees(1, LAMBDA t, iface :
         [iface EXCEPT !.root_panel = versioning_node_group_sort_sockets_recursive(@)])
  /\ UNCHANGED <<inputs_legacy, outputs_legacy>>

\* 400.20 up to 401.11: fix the socket type names with a subtype suffix (lines 3360-3366)
FixSocketSubtypes ==
  /\ Runs(3360)
  /\ tree_interface' =
       OnWalkedTrees(1, LAMBDA t, iface : versioning_fix_socket_subtype_idnames(iface))
  /\ UNCHANGED <<inputs_legacy, outputs_legacy>>

\* the file is saved by this version and loaded again
Reload ==
  /\ ~InLoad
  /\ load = 1
  /\ versionfile' = CurrentVersion[1]
  /\ subversionfile' = CurrentVersion[2]
  /\ pc' = 1
  /\ load' = 2
  /\ executed' = <<>>
  /\ walked' = <<>>
  /\ stored' = [t \in TreeIds |-> [tree_interface |-> tree_interface[t],
                                   inputs_legacy |-> inputs_legacy[t],
                                   outputs_legacy |-> outputs_legacy[t]]]
  /\ UNCHANGED <<nodetrees, embedded, tree_interface, inputs_legacy, outputs_legacy, ntree,
                 issued, calls, alpha, othervars>>

Next ==
  \/ SkipBlock
  \/ RunBlock
  \/ ConvertSocketLists
  \/ FreeLegacySockets
  \/ InitRootPanelFlags
  \/ SplitSockets
  \/ SortSockets
  \/ FixSocketSubtypes
  \/ Reload

Spec == Init /\ [][Next]_vars

\* the stored versions on either side of the guards of the interface blocks
InterfaceVersions ==
  {<<400, 19>>, <<400, 20>>, <<400, 23>>, <<400, 24>>, <<400, 33>>, <<401, 11>>}

\* a node group and a material tree with every small interface, stored around the guards
\* of the interface blocks
InitInterface ==
  /\ \E v \in InterfaceVersions :
       /\ versionfile = v[1]
       /\ subversionfile = v[2]
  /\ StoredDocument({layout \in Layouts : layout.nodetrees = <<1>>},
                    (0..MaxLegacy) \X (0..MaxLegacy), {<<0, 0>>, <<1, 1>>}, Styles,
                    KindSeqs(MaxItems), {<<>>, <<"B", "O">>})
  /\ StartLoad

SpecInterface == InitInterface /\ [][Next]_vars

(***************************************************************************)
(* The rewrites on their own: each step runs one versioning function on    *)
(* the tree, or removes a node. The variables of the load stay as read.    *)
(***************************************************************************)
\* a rewrite starts on the tree, with nothing issued
Start == [tree |-> ntree, log |-> <<>>]

\* the tree and the issued primitives become those of the finished rewrite G
Rewrite(G) ==
  /\ ntree' = G.tree
  /\ issued' = G.log
  /\ UNCHANGED <<versionfile, subversionfile, pc, load, executed, walked, docvars, calls,
                 alpha, othervars>>

\* version_replace_texcoord_normal_socket(light->nodetree) (line 2645)
ReplaceTexcoordNormalSocket ==
  /\ ntree.type = "NTREE_SHADER"
  /\ Rewrite(version_replace_texcoord_normal_socket(Start))

\* version_principled_transmission_roughness(ntree) (line 2718)
PrincipledTransmissionRoughness ==
  /\ ntree.type = "NTREE_SHADER"
  /\ Rewrite(version_principled_transmission_roughness(Start))

\* version_principled_bsdf_subsurface(ntree) (line 2959)
PrincipledBsdfSubsurface ==
  /\ ntree.type = "NTREE_SHADER"
  /\ Rewrite(version_principled_bsdf_subsurface(Start))

\* version_geometry_nodes_use_rotation_socket(*ntree) (line 3353)
GeometryNodesUseRotationSocket ==
  /\ ntree.type = "NTREE_GEOMETRY"
  /\ Rewrite(version_geometry_nodes_use_rotation_socket(Start))

\* nodeRemoveNode on a node of the tree
RemoveNode ==
  \E i \in 1..Len(ntree.nodes) : Rewrite(nodeRemoveNode(Start, ntree.nodes[i].ptr))

NextGraph ==
  \/ ReplaceTexcoordNormalSocket
  \/ PrincipledTransmissionRoughness
  \/ PrincipledBsdfSubsurface
  \/ GeometryNodesUseRotationSocket
  \/ RemoveNode

\* a file stored before the first gate, with one stored shader tree or geometry node group
InitGraph ==
  /\ versionfile = 399
  /\ subversionfile = 0
  /\ StoredDocument({layout \in Layouts : layout.nodetrees = <<1>>}, {<<0, 0>>}, {<<0, 0>>},
                    {GateStyle}, {<<>>}, {<<>>})
  /\ pc = 1
  /\ load = 1
  /\ executed = <<>>
  /\ walked = <<>>
  /\ ntree \in ShaderTrees \cup GeometryTrees
  /\ issued = <<>>
  /\ calls = <<>>
  /\ alpha = <<>>
  /\ bmain = <<>>
  /\ reports = <<>>
  /\ ime = <<>>

SpecGraph == InitGraph /\ [][NextGraph]_vars

(***************************************************************************)
(* The interface functions on their own: each step applies one function   *)
(* to the interface of tree 1 and logs it in issued, with the root panel   *)
(* before and after it. The variables of the load stay as read.            *)
(***************************************************************************)
\* the panels into which and the positions at which the steps insert
InsertPanels(root) ==
  LET all == foreach_item(root.items)
  IN {root.ptr} \cup {all[i].ptr : i \in {k \in 1..Len(all) : IsPanel(all[k])}}

InsertPositions(parent) == (-1)..(Len(parent.items) + 1)

\* an interface becomes that of root; the function is logged
Applied(prim, arg, root, result) ==
  /\ tree_interface' = [tree_interface EXCEPT ![1].root_panel = root]
  /\ issued' = <<[prim |-> prim, arg |-> arg, before |-> tree_interface[1].root_panel,
                  after |-> result]>>
  /\ UNCHANGED <<versionfile, subversionfile, pc, load, executed, walked, nodetrees,
                 embedded, stored, inputs_legacy, outputs_legacy, ntree, calls, alpha,
                 othervars>>

\* version_nodes_find_valid_insert_position_for_item(panel, item, initial_pos), for a
\* socket item or a panel item, on the interface as read
FindValidInsertPosition ==
  \E item_type \in {"NODE_INTERFACE_SOCKET", "NODE_INTERFACE_PANEL"} :
    LET root == tree_interface[1].root_panel
    IN /\ root = stored[1].tree_interface.root_panel
       /\ \E parent_ptr \in InsertPanels(root) :
         LET parent == PanelAt(root, parent_ptr)
         IN \E initial_pos \in InsertPositions(parent) :
              Applied("version_nodes_find_valid_insert_position_for_item",
                      <<parent_ptr, item_type, initial_pos>>, root,
                      version_nodes_find_valid_insert_position_for_item(
                        parent, [item_type |-> item_type], initial_pos))

\* version_nodes_insert_item(parent, socket, position), with a new socket, on the
\* interface as read
InsertItem ==
  LET root == tree_interface[1].root_panel
  IN /\ root = stored[1].tree_interface.root_panel
     /\ \E parent_ptr \in InsertPanels(root), kind \in {"I", "O"} :
          LET parent == PanelAt(root, parent_ptr)
              socket == StoredSocket(kind, MEM_dupallocN(root), GateStyle)
          IN \E position \in InsertPositions(parent) :
               LET inserted == ReplacePanel(root, parent_ptr,
                                            version_nodes_insert_item(parent, socket, position))
               IN Applied("version_nodes_insert_item",
                          <<parent_ptr, socket.ptr, position>>, inserted, inserted)

\* versioning_node_group_sort_sockets_recursive(tree_interface.root_panel)
SortSocketsRecursive ==
  LET sorted == versioning_node_group_sort_sockets_recursive(tree_interface[1].root_panel)
  IN Applied("versioning_node_group_sort_sockets_recursive", <<>>, sorted, sorted)

NextItems ==
  \/ FindValidInsertPosition
  \/ InsertItem
  \/ SortSocketsRecursive

\* the interfaces with up to MaxItems items in the root panel, nested three panels deep
InitItems ==
  /\ versionfile = CurrentVersion[1]
  /\ subversionfile = CurrentVersion[2]
  /\ pc = Len(Registry) + 1
  /\ load = 1
  /\ executed = <<>>
  /\ walked = <<>>
  /\ ntree = EmptyNodeTree
  /\ issued = <<>>
  /\ calls = <<>>
  /\ alpha = <<>>
  /\ bmain = <<>>
  /\ reports = <<>>
  /\ ime = <<>>
  /\ nodetrees = <<1>>
  /\ embedded = <<[owner |-> "material", nodetree |-> 0]>>
  /\ \E kinds \in KindSeqs(MaxItems), flag \in PanelFlags :
       tree_interface =
         [t \in TreeIds |-> StoredInterface(kinds, <<"I", "P", "O">>, flag, GateStyle)]
  /\ inputs_legacy = [t \in TreeIds |-> <<>>]
  /\ outputs_legacy = [t \in TreeIds |-> <<>>]
  /\ stored = [t \in TreeIds |-> [tree_interface |-> tree_interface[t],
                                  inputs_legacy |-> <<>>, outputs_legacy |-> <<>>]]

SpecItems == InitItems /\ [][NextItems]_vars

(***************************************************************************)
(* The alpha source of a material node tree.                               *)
(*   AlphaSource: [socket, state, is_transparency]; socket is              *)
(*   <<node, identifier>> of an input socket, NullSocket for nullptr       *)
(***************************************************************************)
NullSocket == <<0, "">>

\* AlphaSource::alpha_source(fac, inverted)
alpha_source(fac, inverted) ==
  [socket |-> fac, state |-> "ALPHA_SEMI_TRANSPARENT", is_transparency |-> inverted]

\* AlphaSource::opaque()
opaque == [socket |-> NullSocket, state |-> "ALPHA_OPAQUE", is_transparency |-> FALSE]

\* AlphaSource::fully_transparent(socket, inverted)
fully_transparent(socket, inverted) ==
  [socket |-> socket, state |-> "ALPHA_FULLY_TRANSPARENT", is_transparency |-> inverted]

\* AlphaSource::complex_alpha()
complex_alpha ==
  [socket |-> NullSocket, state |-> "ALPHA_COMPLEX_MIX", is_transparency |-> FALSE]

is_opaque(a) == a.state = "ALPHA_OPAQUE"
is_fully_transparent(a) == a.state = "ALPHA_FULLY_TRANSPARENT"
is_transparent(a) == a.state # "ALPHA_OPAQUE"
is_semi_transparent(a) == a.state = "ALPHA_SEMI_TRANSPARENT"
is_complex(a) == a.state = "ALPHA_COMPLEX_MIX"

\* AlphaSource::mix(a, b, fac), had a semi-transparent operand next to an opaque one not
\* made the mix complex
mix_semi_with_opaque(a, b, fac) ==
  IF is_complex(a) \/ is_complex(b) THEN complex_alpha
  ELSE IF \/ is_semi_transparent(a) /\ is_transparent(b)
          \/ is_semi_transparent(b) /\ is_transparent(a) THEN complex_alpha
  ELSE IF is_fully_transparent(a) /\ is_fully_transparent(b)
    THEN fully_transparent(NullSocket, FALSE)
  ELSE IF is_opaque(a) /\ is_opaque(b) THEN opaque
  ELSE alpha_source(fac, ~is_transparent(a))

\* AlphaSource::mix(a, b, fac), had it looked at a only for a semi-transparent operand
mix_semi_of_a(a, b, fac) ==
  IF is_complex(a) \/ is_complex(b) THEN complex_alpha
  ELSE IF is_semi_transparent(a) THEN complex_alpha
  ELSE IF is_semi_transparent(b) THEN alpha_source(fac, ~is_transparent(a))
  ELSE IF is_fully_transparent(a) /\ is_fully_transparent(b)
    THEN fully_transparent(NullSocket, FALSE)
  ELSE IF is_opaque(a) /\ is_opaque(b) THEN opaque
  ELSE alpha_source(fac, ~is_transparent(a))

\* AlphaSource::mix(a, b, fac), had it not looked for a complex operand
mix_ignores_complex(a, b, fac) ==
  IF is_semi_transparent(a) \/ is_semi_transparent(b) THEN complex_alpha
  ELSE IF is_fully_transparent(a) /\ is_fully_transparent(b)
    THEN fully_transparent(NullSocket, FALSE)
  ELSE IF is_opaque(a) /\ is_opaque(b) THEN opaque
  ELSE alpha_source(fac, ~is_transparent(a))

\* AlphaSource::mix(a, b, fac)
mix(a, b, fac) ==
  IF is_complex(a) \/ is_complex(b) THEN complex_alpha
  ELSE IF is_semi_transparent(a) \/ is_semi_transparent(b) THEN complex_alpha
  ELSE IF is_fully_transparent(a) /\ is_fully_transparent(b)
    THEN fully_transparent(NullSocket, FALSE)
  ELSE IF is_opaque(a) /\ is_opaque(b) THEN opaque
  ELSE alpha_source(fac, ~is_transparent(a))

\* AlphaSource::add(a, b), had it returned the state and the socket of the transparent
\* operand without its sense
add_drops_sense(a, b) ==
  IF is_complex(a) \/ is_complex(b) THEN complex_alpha
  ELSE IF is_semi_transparent(a) /\ is_transparent(b) THEN complex_alpha
  ELSE IF is_transparent(a) /\ is_semi_transparent(b) THEN complex_alpha
  ELSE IF is_transparent(a) THEN [a EXCEPT !.is_transparency = FALSE]
  ELSE [b EXCEPT !.is_transparency = FALSE]

\* AlphaSource::add(a, b)
add(a, b) ==
  IF is_complex(a) \/ is_complex(b) THEN complex_alpha
  ELSE IF is_semi_transparent(a) /\ is_transparent(b) THEN complex_alpha
  ELSE IF is_transparent(a) /\ is_semi_transparent(b) THEN complex_alpha
  ELSE IF is_transparent(a) THEN a ELSE b

\* the depth beyond which versioning_eevee_alpha_source_get gives up
DepthLimit == 100

\* BLI_findlink(&node->inputs, index): the input socket of the 0-based index
BLI_findlink_inputs(node, index) == <<node.ptr, node.inputs[index + 1].identifier>>

\* the node that feeds a linked input socket (socket->link->fromnode)
link_fromnode(tree, socket) ==
  NodeAt(tree, LinkAt(tree, socket_link(tree, socket[1], socket[2])).fromnode)

\* the default value of an input socket
version_cycles_node_socket_value(tree, socket) ==
  SocketAt(NodeAt(tree, socket[1]), "SOCK_IN", socket[2]).value

\* the mix shader case returns mix(src0, src1, socket): Fac is linked, or is neither 0 nor 1
mixes(tree, node) ==
  \E fac \in {nodeFindSocket(node, "SOCK_IN", "Fac")} :
    \/ socket_link(tree, node.ptr, fac) # 0
    \/ version_cycles_node_socket_value(tree, <<node.ptr, fac>>) \notin {0, 100}

\* switch (node->type): the sockets on which the case calls
\* versioning_eevee_alpha_source_get, in the order of the calls
node_calls(node) ==
  CASE node.type = "NODE_REROUTE" -> <<BLI_findlink_inputs(node, 0)>>
    [] node.type = "SH_NODE_MIX_SHADER" ->
         <<BLI_findlink_inputs(node, 1), BLI_findlink_inputs(node, 2)>>
    [] node.type = "SH_NODE_ADD_SHADER" ->
         <<BLI_findlink_inputs(node, 0), BLI_findlink_inputs(node, 1)>>
    [] OTHER -> <<>>

\* an input socket of the node, had its link not been looked at
node_input_unlinked(tree, node, identifier) ==
  CHOOSE input \in
    {[socket |-> <<node.ptr, name>>,
      link |-> 0,
      value |-> version_cycles_node_socket_value(tree, <<node.ptr, name>>)] :
       name \in {nodeFindSocket(node, "SOCK_IN", identifier)}} : TRUE

\* an input socket of the node with its link and its default value
node_input(tree, node, identifier) ==
  CHOOSE input \in
    {[socket |-> <<node.ptr, name>>,
      link |-> socket_link(tree, node.ptr, name),
      value |-> version_cycles_node_socket_value(tree, <<node.ptr, name>>)] :
       name \in {nodeFindSocket(node, "SOCK_IN", identifier)}} : TRUE

\* switch (node->type): what the case returns once its calls have returned src
node_alpha_source(tree, node, src) ==
  CASE node.type = "NODE_REROUTE" -> src[1]
    [] node.type = "NODE_GROUP" -> complex_alpha
    [] node.type = "SH_NODE_BSDF_TRANSPARENT" ->
         CHOOSE a \in
           {IF color.link = 0 /\ color.value = <<0, 0, 0>> THEN opaque
            ELSE IF color.link = 0 /\ color.value = <<100, 100, 100>>
              THEN fully_transparent(color.socket, TRUE)
            ELSE alpha_source(color.socket, TRUE) :
              color \in {node_input(tree, node, "Color")}} : TRUE
    [] node.type = "SH_NODE_MIX_SHADER" ->
         CHOOSE a \in
           {IF fac.link = 0 /\ fac.value = 0 THEN src[1]
            ELSE IF fac.link = 0 /\ fac.value = 100 THEN src[2]
            ELSE mix(src[1], src[2], fac.socket) :
              fac \in {node_input(tree, node, "Fac")}} : TRUE
    [] node.type = "SH_NODE_ADD_SHADER" -> add(src[1], src[2])
    [] node.type = "SH_NODE_BSDF_PRINCIPLED" ->
         CHOOSE a \in
           {IF alpha_socket.link = 0 /\ alpha_socket.value = 0
              THEN fully_transparent(alpha_socket.socket, FALSE)
            ELSE IF alpha_socket.link = 0 /\ alpha_socket.value = 100 THEN opaque
            ELSE alpha_source(alpha_socket.socket, FALSE) :
              alpha_socket \in {node_input(tree, node, "Alpha")}} : TRUE
    [] node.type = "SH_NODE_EEVEE_SPECULAR" ->
         CHOOSE a \in
           {IF transparency.link = 0 /\ transparency.value = 0
              THEN fully_transparent(transparency.socket, TRUE)
            ELSE IF transparency.link = 0 /\ transparency.value = 100 THEN opaque
            ELSE alpha_source(transparency.socket, TRUE) :
              transparency \in {node_input(tree, node, "Transparency")}} : TRUE
    [] OTHER -> opaque

\* switch (node->type): the call of AlphaSource::mix or AlphaSource::add that the case
\* makes, with what it returned
node_log(tree, node, src, after) ==
  IF node.type = "SH_NODE_MIX_SHADER" /\ mixes(tree, node)
    THEN <<[prim |-> "AlphaSource::mix",
            arg |-> <<src[1], src[2], <<node.ptr, nodeFindSocket(node, "SOCK_IN", "Fac")>>>>,
            after |-> after]>>
  ELSE IF node.type = "SH_NODE_ADD_SHADER"
    THEN <<[prim |-> "AlphaSource::add", arg |-> <<src[1], src[2]>>, after |-> after]>>
  ELSE <<>>

\* the sockets on which a call of versioning_eevee_alpha_source_get(socket, depth) calls
\* itself, in the order of the calls
alpha_source_calls(tree, socket, depth) ==
  IF depth > DepthLimit THEN <<>>
  ELSE IF socket_link(tree, socket[1], socket[2]) = 0 THEN <<>>
  ELSE CHOOSE sockets \in {node_calls(node) : node \in {link_fromnode(tree, socket)}} : TRUE

\* what versioning_eevee_alpha_source_get(socket, depth) returns once its own calls have
\* returned src
alpha_source_return(tree, socket, depth, src) ==
  IF depth > DepthLimit THEN complex_alpha
  ELSE IF socket_link(tree, socket[1], socket[2]) = 0 THEN opaque
  ELSE CHOOSE a \in {node_alpha_source(tree, node, src) :
                       node \in {link_fromnode(tree, socket)}} : TRUE

\* what a call that returns after adds to the log: that it was beyond DepthLimit, or the
\* call of AlphaSource::mix or AlphaSource::add that it made
alpha_source_log(tree, socket, depth, src, after) ==
  IF depth > DepthLimit
    THEN <<[prim |-> "depth > 100", arg |-> <<socket, depth>>, after |-> after]>>
  ELSE IF socket_link(tree, socket[1], socket[2]) = 0 THEN <<>>
  ELSE CHOOSE log \in {node_log(tree, node, src, after) :
                         node \in {link_fromnode(tree, socket)}} : TRUE

(***************************************************************************)
(* Stored material node trees: the output node (address 1), fed by a node  *)
(* that combines two operands (address 2), or by one operand. The operands *)
(* (addresses 3 and 4) are closures, or a link that closes a cycle. A      *)
(* Value node (address 5) feeds the sockets that are linked.               *)
(***************************************************************************)
\* an operand: the node of the idname, with the value of its socket (<<v>> for a float,
\* <<r, g, b>> for a colour), linked or not
Operand(idname, socket, value, linked) ==
  [idname |-> idname, socket |-> socket, value |-> value, linked |-> linked]

\* no node: the socket is not linked
NoOperand == Operand("", "", <<>>, FALSE)
\* the output of the combining node itself: a cycle through the node
SelfOperand == Operand("self", "", <<>>, FALSE)
\* a reroute node fed by its own output: a cycle through a reroute node
LoopOperand == Operand("NodeReroute", "Input", <<>>, TRUE)

Closures ==
  {Operand("ShaderNodeGroup", "", <<>>, FALSE), Operand("ShaderNodeEmission", "", <<>>, FALSE)}
  \cup {Operand("ShaderNodeBsdfTransparent", "Color", value, FALSE) :
          value \in {<<0, 0, 0>>, <<100, 100, 100>>, <<100, 0, 0>>}}
  \cup {Operand("ShaderNodeBsdfTransparent", "Color", <<0, 0, 0>>, TRUE)}
  \cup {Operand("ShaderNodeBsdfPrincipled", "Alpha", <<value>>, FALSE) : value \in {0, 50, 100}}
  \cup {Operand("ShaderNodeBsdfPrincipled", "Alpha", <<100>>, TRUE)}
  \cup {Operand("ShaderNodeEeveeSpecular", "Transparency", <<value>>, FALSE) :
          value \in {0, 50, 100}}

Operands == {NoOperand, SelfOperand, LoopOperand} \cup Closures

\* the node of an operand, at address ptr; a Principled BSDF has the Alpha input
OperandNode(operand, ptr) ==
  LET nt == CHOOSE t \in node_types : t.idname = operand.idname
      node == NewNode(nt, ptr)
      with_alpha == IF nt.type = "SH_NODE_BSDF_PRINCIPLED"
                      THEN [node EXCEPT !.inputs = Append(@, Socket("Alpha", "SOCK_FLOAT", 100))]
                    ELSE node
  IN [with_alpha EXCEPT !.inputs =
        [k \in 1..Len(@) |->
           IF @[k].identifier = operand.socket /\ operand # LoopOperand
             THEN [@[k] EXCEPT !.value = IF Len(operand.value) = 1 THEN operand.value[1]
                                        ELSE operand.value]
           ELSE @[k]]]

\* the material tree where the node of idname combiner, with the Fac input fac, combines
\* the operands a and b; without combiner, a feeds the output node
MaterialTree(combiner, fac, a, b) ==
  LET has_node(operand) == operand.idname \notin {"", "self"}
      output == NewNode(CHOOSE t \in node_types : t.type = "SH_NODE_OUTPUT_MATERIAL", 1)
      combining ==
        IF combiner = "" THEN <<>>
        ELSE LET node == NewNode(CHOOSE t \in node_types : t.idname = combiner, 2)
             IN <<[node EXCEPT !.inputs =
                     [k \in 1..Len(@) |->
                        IF @[k].identifier = "Fac"
                          THEN [@[k] EXCEPT !.value = fac.value]
                        ELSE @[k]]]>>
      ins == IF combiner = "" THEN <<<<1, "Surface">>>>
             ELSE LET shaders == SelectSeq(combining[1].inputs,
                                           LAMBDA s : s.identifier # "Fac")
                  IN [k \in 1..Len(shaders) |-> <<2, shaders[k].identifier>>]
      operands == SubSeq(<<a, b>>, 1, Len(ins))
      operand_nodes ==
        [k \in 1..Len(operands) |->
           IF has_node(operands[k]) THEN <<OperandNode(operands[k], 2 + k)>> ELSE <<>>]
      flat(seqs) == IF Len(seqs) = 0 THEN <<>>
                    ELSE IF Len(seqs) = 1 THEN seqs[1]
                    ELSE seqs[1] \o seqs[2]
      value_node == NewNode(CHOOSE t \in node_types : t.idname = "ShaderNodeValue", 5)
      valued == {k \in 1..Len(operands) : operands[k].linked /\ operands[k] # LoopOperand}
      nodes == <<output>> \o combining \o flat(operand_nodes)
               \o (IF valued # {} \/ (combiner # "" /\ fac.linked)
                     THEN <<value_node>> ELSE <<>>)
      Link(ptr, fromnode, fromsock, tonode, tosock) ==
        [ptr |-> ptr, fromnode |-> fromnode, fromsock |-> fromsock, tonode |-> tonode,
         tosock |-> tosock]
      surface == IF combiner = "" THEN <<>>
                 ELSE <<Link(10, 2, combining[1].outputs[1].identifier, 1, "Surface")>>
      fac_link == IF combiner # "" /\ fac.linked /\ nodeFindSocket(combining[1], "SOCK_IN", "Fac") # ""
                    THEN <<Link(11, 5, "Value", 2, "Fac")>> ELSE <<>>
      operand_links ==
        [k \in 1..Len(operands) |->
           IF operands[k] = NoOperand THEN <<>>
           ELSE IF operands[k] = SelfOperand
             THEN <<Link(11 + k, 2, combining[1].outputs[1].identifier, ins[k][1], ins[k][2])>>
           ELSE LET node == operand_nodes[k][1]
                IN <<Link(11 + k, node.ptr, node.outputs[1].identifier, ins[k][1], ins[k][2])>>
                   \o (IF operands[k] = LoopOperand
                         THEN <<Link(13 + k, node.ptr, "Output", node.ptr, "Input")>>
                       ELSE IF operands[k].linked
                         THEN <<Link(13 + k, 5, "Value", node.ptr, operands[k].socket)>>
                       ELSE <<>>)]
  IN [type |-> "NTREE_SHADER",
      nodes |-> nodes,
      links |-> surface \o fac_link \o flat(operand_links),
      next_ptr |-> 20]

\* the Fac input: its value in hundredths, linked or not
Facs == {[value |-> value, linked |-> FALSE] : value \in {0, 50, 100}}
        \cup {[value |-> 0, linked |-> TRUE]}

\* a node without Fac input
NoFac == [value |-> 50, linked |-> FALSE]

\* the operands of a node; no pair has a cycle through both operands, for which the
\* calls of versioning_eevee_alpha_source_get are too many to follow
OperandPairs ==
  {pair \in Operands \X Operands :
     pair[1] \in {SelfOperand, LoopOperand} => pair[2] \notin {SelfOperand, LoopOperand}}

MaterialTrees ==
  {MaterialTree("", NoFac, a, NoOperand) : a \in Operands \ {SelfOperand}}
  \cup {MaterialTree("NodeReroute", NoFac, a, NoOperand) : a \in Operands}
  \cup {MaterialTree("ShaderNodeAddShader", NoFac, pair[1], pair[2]) : pair \in OperandPairs}
  \cup {MaterialTree("ShaderNodeMixShader", fac, pair[1], pair[2]) :
          fac \in Facs, pair \in OperandPairs}

(***************************************************************************)
(* versioning_eevee_alpha_source_get on a stored material tree: one step   *)
(* per call and per return.                                                *)
(***************************************************************************)
\* version_eevee_output_node_get and nodeFindSocket(output_node, SOCK_IN, "Surface")
surface_socket(tree) ==
  LET output_node == tree.nodes[Min({i \in 1..Len(tree.nodes) :
                                       tree.nodes[i].type = "SH_NODE_OUTPUT_MATERIAL"})]
  IN <<output_node.ptr, nodeFindSocket(output_node, "SOCK_IN", "Surface")>>

\* the call in progress that runs
Innermost == calls[Len(calls)]

\* versioning_eevee_material_blend_mode_settings calls
\* versioning_eevee_alpha_source_get(surface_socket)
AlphaSourceGet ==
  /\ calls = <<>>
  /\ alpha = <<>>
  /\ calls' = <<[socket |-> surface_socket(ntree), depth |-> 0, src |-> <<>>]>>
  /\ issued' = <<>>
  /\ UNCHANGED <<versionfile, subversionfile, pc, load, executed, walked, docvars, ntree,
                 alpha, othervars>>

\* the innermost call, had it followed the link in place of calling itself with
\* depth + 1
AlphaSourceCall_in_place ==
  /\ calls # <<>>
  /\ \E call \in {Innermost} :
       \E needs \in {alpha_source_calls(ntree, call.socket, call.depth)} :
         /\ Len(call.src) < Len(needs)
         /\ calls' = [calls EXCEPT ![Len(calls)] =
                        [socket |-> needs[Len(call.src) + 1],
                         depth |-> call.depth, src |-> <<>>]]
  /\ UNCHANGED <<versionfile, subversionfile, pc, load, executed, walked, docvars, ntree,
                 issued, alpha, othervars>>

\* the innermost call calls versioning_eevee_alpha_source_get(..., depth + 1)
AlphaSourceCall ==
  /\ calls # <<>>
  /\ \E call \in {Innermost} :
       \E needs \in {alpha_source_calls(ntree, call.socket, call.depth)} :
         /\ Len(call.src) < Len(needs)
         /\ calls' = Append(calls, [socket |-> needs[Len(call.src) + 1],
                                    depth |-> call.depth + 1, src |-> <<>>])
  /\ UNCHANGED <<versionfile, subversionfile, pc, load, executed, walked, docvars, ntree,
                 issued, alpha, othervars>>

\* the innermost call returns, to the call that made it or to
\* versioning_eevee_material_blend_mode_settings
AlphaSourceReturn ==
  /\ calls # <<>>
  /\ \E call \in {Innermost} :
       /\ Len(call.src) = Len(alpha_source_calls(ntree, call.socket, call.depth))
       /\ \E value \in {alpha_source_return(ntree, call.socket, call.depth, call.src)},
             outer \in {SubSeq(calls, 1, Len(calls) - 1)} :
            /\ issued' = issued \o alpha_source_log(ntree, call.socket, call.depth,
                                                    call.src, value)
            /\ IF outer = <<>>
                 THEN calls' = <<>> /\ alpha' = <<value>>
               ELSE /\ calls' = [outer EXCEPT ![Len(outer)].src = Append(@, value)]
                    /\ alpha' = alpha
  /\ UNCHANGED <<versionfile, subversionfile, pc, load, executed, walked, docvars, ntree,
                 othervars>>

NextAlpha ==
  \/ AlphaSourceGet
  \/ AlphaSourceCall
  \/ AlphaSourceReturn

InitAlpha ==
  /\ versionfile = 399
  /\ subversionfile = 0
  /\ StoredDocument({layout \in Layouts : layout.nodetrees = <<1>>}, {<<0, 0>>}, {<<0, 0>>},
                    {GateStyle}, {<<>>}, {<<>>})
  /\ pc = 1
  /\ load = 1
  /\ executed = <<>>
  /\ walked = <<>>
  /\ ntree \in MaterialTrees
  /\ issued = <<>>
  /\ calls = <<>>
  /\ alpha = <<>>
  /\ bmain = <<>>
  /\ reports = <<>>
  /\ ime = <<>>

SpecAlpha == InitAlpha /\ [][NextAlpha]_vars

\* the calls go on: the code runs until versioning_eevee_alpha_source_get has returned
SpecAlphaRuns == SpecAlpha /\ WF_vars(NextAlpha)

(***************************************************************************)
(* The conversion of the blend mode of a material to nodes (lines 560-641) *)
(* and the block that runs it on bmain->materials (lines 844-891).         *)
(***************************************************************************)
\* most materials of a document
MaxMaterials == 2

\* versioning_eevee_alpha_source_get(socket, depth): what the call returns
RECURSIVE versioning_eevee_alpha_source_get(_, _, _)
versioning_eevee_alpha_source_get(tree, socket, depth) ==
  LET needs == alpha_source_calls(tree, socket, depth)
      src == IF Len(needs) = 0 THEN <<>>
             ELSE IF Len(needs) = 1
               THEN <<versioning_eevee_alpha_source_get(tree, needs[1], depth + 1)>>
             ELSE <<versioning_eevee_alpha_source_get(tree, needs[1], depth + 1),
                    versioning_eevee_alpha_source_get(tree, needs[2], depth + 1)>>
  IN alpha_source_return(tree, socket, depth, src)

\* a threshold of 2.0f, in hundredths: the material is opaque
OpaqueThreshold == 200

\* math_node->custom1 = NODE_MATH_GREATER_THAN; math_node->flag |= NODE_HIDDEN
SetMathNode(G, node_ptr) ==
  [G EXCEPT !.tree.nodes =
     [i \in 1..Len(@) |->
        IF @[i].ptr # node_ptr THEN @[i]
        ELSE [ptr |-> @[i].ptr, type |-> @[i].type, idname |-> @[i].idname,
              inputs |-> @[i].inputs, outputs |-> @[i].outputs,
              custom1 |-> "NODE_MATH_GREATER_THAN", flag |-> {"NODE_HIDDEN"}]]]

\* the value that the conversion stores in an unlinked socket of the value v under a
\* threshold: float(is_transparency ? v > 1 - threshold : v > threshold)
Clipped(v, is_transparency, threshold) ==
  IF (IF is_transparency THEN v > 100 - threshold ELSE v > threshold) THEN 100 ELSE 0

\* version_eevee_output_node_get(ntree, SH_NODE_OUTPUT_MATERIAL) returns nullptr
NoOutputNode(tree) ==
  \A i \in 1..Len(tree.nodes) : tree.nodes[i].type # "SH_NODE_OUTPUT_MATERIAL"

\* the conversion, had it returned true for a complex classification as it does for one
\* without driving socket
blend_mode_settings_without_complex(G, threshold) == [G |-> G, return |-> TRUE]

\* the conversion, had it returned without a write for every classification that is not
\* semi-transparent
blend_mode_settings_semi_only(G, threshold) ==
  [G |-> G,
   return |-> \/ NoOutputNode(G.tree)
              \/ ~is_complex(versioning_eevee_alpha_source_get(G.tree,
                                                               surface_socket(G.tree), 0))]

\* the conversion, had the opaque case kept the link of the driving socket
blend_mode_settings_keeps_link(G, threshold) ==
  IF NoOutputNode(G.tree) THEN [G |-> G, return |-> TRUE]
  ELSE LET source == versioning_eevee_alpha_source_get(G.tree, surface_socket(G.tree), 0)
           value == IF source.is_transparency THEN 0 ELSE 100
       IN IF is_complex(source) THEN [G |-> G, return |-> FALSE]
          ELSE IF source.socket = NullSocket THEN [G |-> G, return |-> TRUE]
          ELSE [G |-> SetValue(G, source.socket[1], source.socket[2],
                               IF SocketAt(NodeAt(G.tree, source.socket[1]), "SOCK_IN",
                                           source.socket[2]).type = "SOCK_RGBA"
                                 THEN <<value, value, value>>
                               ELSE value),
                return |-> TRUE]

\* the conversion, had the second input of the math node been the threshold in both
\* senses
blend_mode_settings_same_threshold(G, threshold) ==
  IF NoOutputNode(G.tree) THEN [G |-> G, return |-> TRUE]
  ELSE LET source == versioning_eevee_alpha_source_get(G.tree, surface_socket(G.tree), 0)
           link_ptr == socket_link(G.tree, source.socket[1], source.socket[2])
       IN IF is_complex(source) THEN [G |-> G, return |-> FALSE]
          ELSE IF source.socket = NullSocket \/ link_ptr = 0 \/ threshold = OpaqueThreshold
            THEN [G |-> G, return |-> TRUE]
          ELSE LET link == LinkAt(G.tree, link_ptr)
                   math_node == G.tree.next_ptr
                   G1 == SetMathNode(nodeAddNode(nodeRemLink(G, link_ptr), "ShaderNodeMath"),
                                     math_node)
                   G2 == nodeAddLink(G1, link.fromnode, link.fromsock, math_node, "Value")
                   G3 == nodeAddLink(G2, math_node, "Value", link.tonode, link.tosock)
               IN [G |-> SetValue(G3, math_node, "Value_001", threshold), return |-> TRUE]

\* versioning_eevee_material_blend_mode_settings(ntree, threshold): the rewrite of the
\* tree and the value returned; threshold in hundredths
versioning_eevee_material_blend_mode_settings(G, threshold) ==
  IF NoOutputNode(G.tree) THEN [G |-> G, return |-> TRUE]
  ELSE CHOOSE r \in {
    LET socket == source.socket
        link_ptr == socket_link(G.tree, socket[1], socket[2])
        sock == SocketAt(NodeAt(G.tree, socket[1]), "SOCK_IN", socket[2])
    IN IF is_complex(source) THEN [G |-> G, return |-> FALSE]
       ELSE IF socket = NullSocket THEN [G |-> G, return |-> TRUE]
       ELSE IF threshold = OpaqueThreshold
         THEN LET G1 == IF link_ptr # 0 THEN nodeRemLink(G, link_ptr) ELSE G
                  value == IF source.is_transparency THEN 0 ELSE 100
              IN [G |-> SetValue(G1, socket[1], socket[2],
                                 IF sock.type = "SOCK_RGBA" THEN <<value, value, value>>
                                 ELSE value),
                  return |-> TRUE]
       ELSE IF link_ptr # 0
         THEN LET link == LinkAt(G.tree, link_ptr)
                  math_node == G.tree.next_ptr
                  G1 == SetMathNode(nodeAddNode(nodeRemLink(G, link_ptr), "ShaderNodeMath"),
                                    math_node)
                  input_1 == BLI_findlink_inputs(NodeAt(G1.tree, math_node), 0)[2]
                  input_2 == BLI_findlink_inputs(NodeAt(G1.tree, math_node), 1)[2]
                  output == NodeAt(G1.tree, math_node).outputs[1].identifier
                  G2 == nodeAddLink(G1, link.fromnode, link.fromsock, math_node, input_1)
                  G3 == nodeAddLink(G2, math_node, output, link.tonode, link.tosock)
              IN [G |-> SetValue(G3, math_node, input_2,
                                 IF source.is_transparency THEN 100 - threshold
                                 ELSE threshold),
                  return |-> TRUE]
       ELSE IF sock.type = "SOCK_RGBA"
         THEN LET sum == sock.value[1] + sock.value[2] + sock.value[3]
                  \* avg > t, for avg = sum / 3 capped at 1
                  above(t) == IF sum >= 300 THEN 100 > t ELSE sum > 3 * t
                  value == IF (IF source.is_transparency THEN above(100 - threshold)
                               ELSE above(threshold)) THEN 100 ELSE 0
              IN [G |-> SetValue(G, socket[1], socket[2], <<value, value, value>>),
                  return |-> TRUE]
       ELSE [G |-> SetValue(G, socket[1], socket[2],
                            Clipped(sock.value, source.is_transparency, threshold)),
             return |-> TRUE] :
      source \in {versioning_eevee_alpha_source_get(G.tree, surface_socket(G.tree), 0)}} :
    TRUE

\* BLO_reportf_wrap(fd->reports, type, format, ...): the report at the end of the list
BLO_reportf_wrap(list, type, format, args) ==
  Append(list, [type |-> type, format |-> format, args |-> args])

\* the body of the loop over bmain->materials (lines 851-888) for one material: the
\* material and the reports after it, and the primitives issued on its tree
convert_blend_method(material, list) ==
  IF ~material.use_nodes \/ material.nodetree = <<>>
    THEN [material |-> material, list |-> list, log |-> <<>>]
  ELSE IF material.blend_method \in {"MA_BM_HASHED", "MA_BM_BLEND"}
    THEN [material |-> material, list |-> list, log |-> <<>>]
  ELSE IF \/ material.blend_shadow = "MA_BS_CLIP" /\ material.blend_method # "MA_BM_CLIP"
          \/ material.blend_shadow = "MA_BS_HASHED"
    THEN [material |-> material,
          list |-> BLO_reportf_wrap(list, "RPT_WARNING",
                     "Couldn't convert material %s because of different Blend Mode and Shadow Mode\n",
                     <<material.name>>),
          log |-> <<>>]
  ELSE CHOOSE after \in {
         [material |-> [material EXCEPT !.nodetree = <<r.G.tree>>],
          list |-> IF r.return THEN list
                   ELSE BLO_reportf_wrap(list, "RPT_WARNING",
                          "Couldn't convert material %s because of non-trivial alpha blending\n",
                          <<material.name>>),
          log |-> r.G.log] :
           r \in {versioning_eevee_material_blend_mode_settings(
                    [tree |-> material.nodetree[1], log |-> <<>>],
                    IF material.blend_method = "MA_BM_CLIP"
                      THEN material.alpha_threshold ELSE OpaqueThreshold)}} : TRUE

\* LISTBASE_FOREACH (Material *, material, &bmain->materials) from the material of index
\* i on: the materials, the reports and the primitives issued after the loop
RECURSIVE convert_blend_methods(_, _, _, _)
convert_blend_methods(materials, list, log, i) ==
  IF i > Len(materials) THEN [materials |-> materials, list |-> list, log |-> log]
  ELSE CHOOSE after \in {
         convert_blend_methods([materials EXCEPT ![i] = r.material], r.list,
                               log \o r.log, i + 1) :
           r \in {convert_blend_method(materials[i], list)}} : TRUE

\* the block of lines 844-891, gated by !MAIN_VERSION_FILE_ATLEAST(bmain, 402, 51)
ConvertBlendMethod ==
  /\ pc = 1
  /\ pc' = 2
  /\ LET scene_uses_eevee_legacy ==
           bmain.scenes # <<>> /\ bmain.scenes[1].engine = "BLENDER_EEVEE"
     IN IF ~MAIN_VERSION_FILE_ATLEAST(402, 51) /\ scene_uses_eevee_legacy
          THEN \E r \in {convert_blend_methods(bmain.materials, reports.list, <<>>, 1)} :
                 /\ bmain' = [bmain EXCEPT !.materials = r.materials]
                 /\ reports' = [reports EXCEPT !.list = r.list]
                 /\ issued' = r.log
        ELSE UNCHANGED <<bmain, reports, issued>>
  /\ UNCHANGED <<versionfile, subversionfile, load, executed, walked, docvars, ntree,
                 calls, alpha, ime>>

\* a material: its name, use_nodes, its node tree (<<>> is nullptr), blend_method,
\* blend_shadow and alpha_threshold in hundredths
Material(name, use_nodes, nodetree, blend_method, blend_shadow, alpha_threshold) ==
  [name |-> name, use_nodes |-> use_nodes, nodetree |-> nodetree,
   blend_method |-> blend_method, blend_shadow |-> blend_shadow,
   alpha_threshold |-> alpha_threshold]

\* the blend settings of a stored material: <<blend_method, blend_shadow,
\* alpha_threshold>>
BlendSettings ==
  {"MA_BM_SOLID", "MA_BM_CLIP", "MA_BM_HASHED", "MA_BM_BLEND"}
  \X {"MA_BS_NONE", "MA_BS_SOLID", "MA_BS_CLIP", "MA_BS_HASHED"}
  \X {50}

\* the blend settings under which every stored tree is converted: the alpha threshold
\* varies with the one blend method that reads it
ConvertedSettings ==
  {<<"MA_BM_SOLID", "MA_BS_NONE", 50>>, <<"MA_BM_SOLID", "MA_BS_SOLID", 50>>,
   <<"MA_BM_CLIP", "MA_BS_SOLID", 50>>, <<"MA_BM_CLIP", "MA_BS_CLIP", 50>>}
  \cup {<<"MA_BM_CLIP", "MA_BS_NONE", threshold>> : threshold \in {0, 50, 100}}

\* the stored material trees that the block converts: the trees without cycle (SpecAlpha
\* follows the calls through a cycle one by one), and a tree without output node
BlendTrees ==
  {MaterialTree("", NoFac, a, NoOperand) : a \in Operands \ {SelfOperand, LoopOperand}}
  \cup {MaterialTree("NodeReroute", NoFac, a, NoOperand) :
          a \in Operands \ {SelfOperand, LoopOperand}}
  \cup {MaterialTree("ShaderNodeAddShader", NoFac, pair[1], pair[2]) :
          pair \in (Operands \ {SelfOperand, LoopOperand})
                   \X (Operands \ {SelfOperand, LoopOperand})}
  \cup {MaterialTree("ShaderNodeMixShader", fac, pair[1], pair[2]) :
          fac \in Facs, pair \in (Operands \ {SelfOperand, LoopOperand})
                                 \X (Operands \ {SelfOperand, LoopOperand})}
  \cup {EmptyNodeTree}

\* the stored materials of a name: every tree under the settings that convert it, a
\* few trees under every setting, and materials without nodes
Materials(name) ==
  {Material(name, TRUE, <<tree>>, s[1], s[2], s[3]) :
     tree \in BlendTrees, s \in ConvertedSettings}
  \cup {Material(name, TRUE, <<MaterialTree("", NoFac, a, NoOperand)>>, s[1], s[2], s[3]) :
          a \in {Operand("ShaderNodeBsdfPrincipled", "Alpha", <<100>>, TRUE),
                 Operand("ShaderNodeBsdfPrincipled", "Alpha", <<50>>, FALSE),
                 Operand("ShaderNodeGroup", "", <<>>, FALSE)},
          s \in BlendSettings}
  \cup {Material(name, use_nodes, <<>>, "MA_BM_SOLID", "MA_BS_NONE", 50) :
          use_nodes \in BOOLEAN}
  \cup {Material(name, FALSE,
                 <<MaterialTree("", NoFac, Operand("ShaderNodeGroup", "", <<>>, FALSE),
                                NoOperand)>>,
                 "MA_BM_CLIP", "MA_BS_NONE", 50)}

\* the materials that follow the first one in a stored document: one that converts to a
\* math node, one that is complex, one without nodes
MoreMaterials(name) ==
  {Material(name, TRUE,
            <<MaterialTree("", NoFac, Operand("ShaderNodeBsdfPrincipled", "Alpha", <<100>>,
                                              TRUE), NoOperand)>>,
            "MA_BM_CLIP", "MA_BS_NONE", 50),
   Material(name, TRUE,
            <<MaterialTree("", NoFac, Operand("ShaderNodeGroup", "", <<>>, FALSE),
                           NoOperand)>>,
            "MA_BM_SOLID", "MA_BS_NONE", 50),
   Material(name, FALSE, <<>>, "MA_BM_SOLID", "MA_BS_NONE", 50)}

MaterialNames == <<"Material", "Material.001", "Material.002", "Material.003">>

\* the lists of at most n materials: a first material, then materials of more
RECURSIVE MaterialLists(_, _, _)
MaterialLists(first, more, n) ==
  IF n = 1 THEN {<<m>> : m \in first}
  ELSE MaterialLists(first, more, n - 1)
       \cup {Append(list, m) :
               list \in {l \in MaterialLists(first, more, n - 1) : Len(l) = n - 1},
               m \in {[material EXCEPT !.name = MaterialNames[n]] : material \in more}}

\* the stored documents: every material under a first scene of the legacy engine in a
\* file that the block converts, and a few materials in the other files
BlendDocuments ==
  {[subversionfile |-> 50, scenes |-> <<[engine |-> "BLENDER_EEVEE"]>>,
    materials |-> materials] :
     materials \in MaterialLists(Materials(MaterialNames[1]),
                                 MoreMaterials(MaterialNames[1]), MaxMaterials)}
  \cup {[subversionfile |-> subversion, scenes |-> scenes, materials |-> materials] :
          subversion \in {50, 51},
          scenes \in {<<>>, <<[engine |-> "BLENDER_EEVEE"]>>, <<[engine |-> "CYCLES"]>>,
                      <<[engine |-> "CYCLES"], [engine |-> "BLENDER_EEVEE"]>>},
          materials \in MaterialLists(MoreMaterials(MaterialNames[1]),
                                      MoreMaterials(MaterialNames[1]), MaxMaterials)}

\* a document without top-level node trees and without interfaces
NoNodeTrees ==
  /\ nodetrees = <<>>
  /\ embedded = <<>>
  /\ tree_interface = <<>>
  /\ stored = <<>>
  /\ inputs_legacy = <<>>
  /\ outputs_legacy = <<>>

InitBlend ==
  /\ versionfile = 402
  /\ NoNodeTrees
  /\ pc = 1
  /\ load = 1
  /\ executed = <<>>
  /\ walked = <<>>
  /\ ntree = EmptyNodeTree
  /\ issued = <<>>
  /\ calls = <<>>
  /\ alpha = <<>>
  /\ \E document \in BlendDocuments :
       /\ subversionfile = document.subversionfile
       /\ bmain = [scenes |-> document.scenes, materials |-> document.materials]
  /\ reports = [list |-> <<>>, count |-> [missing_obproxies |-> 0]]
  /\ ime = <<>>

NextBlend == ConvertBlendMethod

SpecBlend == InitBlend /\ [][NextBlend]_vars

(***************************************************************************)
(* The check of the object proxies (lines 746-775), one step per object of *)
(* bmain->objects.                                                         *)
(***************************************************************************)
\* most objects of a document
MaxObjects == 3

\* ID_IS_LINKED(id): id->lib is not nullptr ("")
ID_IS_LINKED(id) == id.lib # ""

\* the body of the loop for the object of index i, had the back-reference of a proxy
\* that is not linked been left as it was
proxy_check_keeps_proxy_from(objects, r, i) ==
  IF objects[i].proxy = 0 THEN [objects |-> objects, reports |-> r]
  ELSE IF ~ID_IS_LINKED(objects[objects[i].proxy])
    THEN [objects |-> [objects EXCEPT ![i].proxy = 0],
          reports |-> [list |-> BLO_reportf_wrap(r.list, "RPT_INFO",
                                                 "Proxy lost from object %s lib <NONE>\n",
                                                 <<objects[i].name>>),
                       count |-> [r.count EXCEPT !.missing_obproxies = @ + 1]]]
  ELSE [objects |-> [objects EXCEPT ![objects[i].proxy].proxy_from = i], reports |-> r]

\* the body of the loop over bmain->objects (lines 749-774) for the object of index i:
\* the objects and fd->reports after it. A pointer to an object is its index in
\* bmain->objects, 0 is nullptr.
proxy_check(objects, r, i) ==
  IF objects[i].proxy = 0 THEN [objects |-> objects, reports |-> r]
  ELSE IF ~ID_IS_LINKED(objects[objects[i].proxy])
    THEN [objects |-> [[objects EXCEPT ![objects[i].proxy].proxy_from = 0]
                         EXCEPT ![i].proxy = 0],
          reports |->
            [list |-> IF objects[i].lib # ""
                        THEN BLO_reportf_wrap(r.list, "RPT_INFO",
                                              "Proxy lost from object %s lib %s\n",
                                              <<objects[i].name, objects[i].lib>>)
                      ELSE BLO_reportf_wrap(r.list, "RPT_INFO",
                                            "Proxy lost from object %s lib <NONE>\n",
                                            <<objects[i].name>>),
             count |-> [r.count EXCEPT !.missing_obproxies = @ + 1]]]
  ELSE [objects |-> [objects EXCEPT ![objects[i].proxy].proxy_from = i], reports |-> r]

\* one round of LISTBASE_FOREACH (Object *, ob, &bmain->objects) in the block gated by
\* !MAIN_VERSION_FILE_ATLEAST(bmain, 400, 9); pc is the index of ob
ProxyCheck ==
  /\ ~MAIN_VERSION_FILE_ATLEAST(400, 9)
  /\ pc <= Len(bmain.objects)
  /\ \E r \in {proxy_check(bmain.objects, reports, pc)} :
       /\ bmain' = [bmain EXCEPT !.objects = r.objects]
       /\ reports' = r.reports
  /\ pc' = pc + 1
  /\ UNCHANGED <<versionfile, subversionfile, load, executed, walked, docvars, ntree,
                 issued, calls, alpha, ime>>

ObjectNames == <<"Cube", "Armature", "Rig", "Empty">>

\* the lists of n stored objects: each is local or linked from a library, has a proxy or
\* none, and has the proxy_from that the file holds, nullptr or the first object
ObjectLists(n) ==
  {objects \in [1..n -> [name : {ObjectNames[k] : k \in 1..n},
                         lib : {"", "//rig.blend"},
                         proxy : 0..n,
                         proxy_from : {0, 1}]] :
     \A k \in 1..n : objects[k].name = ObjectNames[k]}

InitProxies ==
  /\ versionfile = 400
  /\ subversionfile \in {8, 9}
  /\ NoNodeTrees
  /\ pc = 1
  /\ load = 1
  /\ executed = <<>>
  /\ walked = <<>>
  /\ ntree = EmptyNodeTree
  /\ issued = <<>>
  /\ calls = <<>>
  /\ alpha = <<>>
  /\ \E n \in 1..MaxObjects : \E objects \in ObjectLists(n) : bmain = [objects |-> objects]
  /\ reports = [list |-> <<>>, count |-> [missing_obproxies |-> 0]]
  /\ ime = <<>>

NextProxies == ProxyCheck

SpecProxies == InitProxies /\ [][NextProxies]_vars

(***************************************************************************)
(* GHOST_ImeWin32: the IME of a window. An invoker is a number, 0 is        *)
(* GHOST_IMEInvokerNone.                                                   *)
(***************************************************************************)
\* the invokers other than GHOST_IMEInvokerNone are 1..MaxInvoker
MaxInvoker == 2

GHOST_IMEInvokerNone == 0

\* GHOST_ImeWin32::BeginIME(invoker) (lines 135-153): BLI_assert fails for
\* GHOST_IMEInvokerNone, and a build without assertions goes on; the default IME context
\* is associated with the window
BeginIME(w, invoker) ==
  [w EXCEPT !.asserted = @ \/ invoker = GHOST_IMEInvokerNone,
            !.m_invoker = invoker,
            !.himc = TRUE]

\* GHOST_ImeWin32::EndIME() (lines 155-180): CompleteComposition only notifies the IME,
\* which answers with WM_IME_ENDCOMPOSITION later
EndIME(w) ==
  [w EXCEPT !.m_invoker = GHOST_IMEInvokerNone,
            !.himc = FALSE,
            !.caret = FALSE]

\* GHOST_ImeWin32::PauseIME() (lines 199-204)
PauseIME(w) == EndIME([w EXCEPT !.m_is_paused = TRUE])

\* GHOST_ImeWin32::ResumeIME() (lines 206-211)
ResumeIME(w) ==
  \* BeginIME(m_invoker) reads the invoker that EndIME has left
  BeginIME([w EXCEPT !.m_is_paused = FALSE], w.m_invoker)

\* GHOST_ImeWin32::MoveIME() (lines 218-331): the system caret is made anew when the
\* window has an IME context
MoveIME(w) == IF w.himc THEN [w EXCEPT !.caret = TRUE] ELSE w

\* the input languages of the keyboard layouts: IMELANG_ENGLISH, IMELANG_CHINESE,
\* IMELANG_JAPANESE, IMELANG_KOREAN (lines 19-22)
Languages == {"en", "zh", "ja", "ko"}

\* GHOST_ImeWin32::UpdateInputLanguage() (lines 68-83): m_language is the language of the
\* keyboard layout
UpdateInputLanguage ==
  /\ \E language \in Languages : ime' = [ime EXCEPT !.m_language = language]
  /\ UNCHANGED <<versionfile, subversionfile, pc, load, executed, walked, docvars, ntree,
                 issued, calls, alpha, bmain, reports>>

\* GHOST_ImeWin32::CheckFirst() (lines 51-66)
CheckFirst ==
  /\ ime.m_is_first
  /\ \E language \in Languages :
       ime' = EndIME([ime EXCEPT !.m_is_first = FALSE, !.m_language = language])
  /\ UNCHANGED <<versionfile, subversionfile, pc, load, executed, walked, docvars, ntree,
                 issued, calls, alpha, bmain, reports>>

\* the window manager begins the IME for an invoker
CallBeginIME ==
  /\ \E invoker \in 1..MaxInvoker :
       ime' = [BeginIME(ime, invoker) EXCEPT !.paused_from = GHOST_IMEInvokerNone]
  /\ UNCHANGED <<versionfile, subversionfile, pc, load, executed, walked, docvars, ntree,
                 issued, calls, alpha, bmain, reports>>

\* the window manager ends the IME
CallEndIME ==
  /\ ime' = [EndIME(ime) EXCEPT !.paused_from = GHOST_IMEInvokerNone]
  /\ UNCHANGED <<versionfile, subversionfile, pc, load, executed, walked, docvars, ntree,
                 issued, calls, alpha, bmain, reports>>

\* Shift and a mouse button go down while the IME is on: the IME is paused (comment of
\* m_is_paused, GHOST_ImeWin32.hh lines 260-274)
CallPauseIME ==
  /\ ime.m_invoker # GHOST_IMEInvokerNone
  /\ ~ime.m_is_paused
  /\ ime' = [PauseIME(ime) EXCEPT !.paused_from = ime.m_invoker]
  /\ UNCHANGED <<versionfile, subversionfile, pc, load, executed, walked, docvars, ntree,
                 issued, calls, alpha, bmain, reports>>

\* Shift goes up and the IME was paused: the IME is resumed
CallResumeIME ==
  /\ ime.m_is_paused
  /\ ime' = ResumeIME(ime)
  /\ UNCHANGED <<versionfile, subversionfile, pc, load, executed, walked, docvars, ntree,
                 issued, calls, alpha, bmain, reports>>

\* GHOST_ImeWin32::OnWindowActivated() (lines 119-125)
OnWindowActivated ==
  /\ ime' = MoveIME(ime)
  /\ ime' # ime
  /\ UNCHANGED <<versionfile, subversionfile, pc, load, executed, walked, docvars, ntree,
                 issued, calls, alpha, bmain, reports>>

\* GHOST_ImeWin32::OnWindowDeactivated() (lines 127-133)
OnWindowDeactivated ==
  /\ ime.caret
  /\ ime' = [ime EXCEPT !.caret = FALSE]
  /\ UNCHANGED <<versionfile, subversionfile, pc, load, executed, walked, docvars, ntree,
                 issued, calls, alpha, bmain, reports>>

\* GHOST_ImeWin32::OnCompositionStart() (lines 333-337), on WM_IME_STARTCOMPOSITION
OnCompositionStart ==
  /\ ime.himc
  /\ ~ime.m_is_composing
  /\ ime' = [ime EXCEPT !.m_is_composing = TRUE]
  /\ UNCHANGED <<versionfile, subversionfile, pc, load, executed, walked, docvars, ntree,
                 issued, calls, alpha, bmain, reports>>

\* GHOST_ImeWin32::OnCompositionEnd() (lines 345-349), on WM_IME_ENDCOMPOSITION
OnCompositionEnd ==
  /\ ime.m_is_composing
  /\ ime' = [ime EXCEPT !.m_is_composing = FALSE]
  /\ UNCHANGED <<versionfile, subversionfile, pc, load, executed, walked, docvars, ntree,
                 issued, calls, alpha, bmain, reports>>

NextIme ==
  \/ CheckFirst
  \/ UpdateInputLanguage
  \/ CallBeginIME
  \/ CallEndIME
  \/ CallPauseIME
  \/ CallResumeIME
  \/ OnWindowActivated
  \/ OnWindowDeactivated
  \/ OnCompositionStart
  \/ OnCompositionEnd

\* GHOST_ImeWin32::GHOST_ImeWin32() (lines 24-34); himc: the window has an IME context,
\* as every new window has (comment of lines 61-63); caret: the system caret exists; asserted: a BLI_assert has failed; paused_from: the
\* invoker at the PauseIME that no BeginIME or EndIME of the window manager has followed
\* (history: no method reads it)
InitIme ==
  /\ versionfile = 402
  /\ subversionfile = 55
  /\ NoNodeTrees
  /\ pc = 1
  /\ load = 1
  /\ executed = <<>>
  /\ walked = <<>>
  /\ ntree = EmptyNodeTree
  /\ issued = <<>>
  /\ calls = <<>>
  /\ alpha = <<>>
  /\ bmain = <<>>
  /\ reports = <<>>
  /\ ime = [m_is_first |-> TRUE, m_language |-> "en",
            m_invoker |-> GHOST_IMEInvokerNone, m_is_paused |-> FALSE,
            m_is_composing |-> FALSE, himc |-> TRUE, caret |-> FALSE,
            asserted |-> FALSE, paused_from |-> GHOST_IMEInvokerNone]

SpecIme == InitIme /\ [][NextIme]_vars

(***************************************************************************)
(* version_principled_bsdf_update_animdata (lines 269-320): the animation  *)
(* paths on the inputs of the Principled BSDF nodes of a tree. An F-curve  *)
(* of path nodes["name"].inputs[i] is [node |-> name, input |-> i].        *)
(***************************************************************************)
\* most F-curves of the animation data of a tree
MaxFcurves == 2

\* the highest index of an input that a stored F-curve animates
MaxInput == 23

\* remap_table, listed from the last entry to the first
remap_table_reversed ==
  << <<21, 4>>, <<4, 10>>, <<5, 11>>, <<6, 1>>, <<1, 9>>, <<7, 12>>, <<9, 2>>, <<2, 8>>,
     <<8, 13>>, <<10, 14>>, <<11, 15>>, <<12, 23>>, <<13, 25>>, <<14, 18>>, <<15, 19>>,
     <<16, 3>>, <<19, 26>>, <<20, 27>> >>

\* remap_table (lines 295-314): <<old index, new index>>, in the listed order
remap_table ==
  << <<20, 27>>, <<19, 26>>, <<16, 3>>, <<15, 19>>, <<14, 18>>, <<13, 25>>, <<12, 23>>,
     <<11, 15>>, <<10, 14>>, <<8, 13>>, <<2, 8>>, <<9, 2>>, <<7, 12>>, <<1, 9>>, <<6, 1>>,
     <<5, 11>>, <<4, 10>>, <<21, 4>> >>

\* BKE_animdata_fix_paths_remove(id, prefix + "[index]"): the F-curves without the ones
\* of the path
BKE_animdata_fix_paths_remove(fcurves, name, index) ==
  SelectSeq(fcurves, LAMBDA fcu : ~(fcu.node = name /\ fcu.input = index))

\* BKE_animdata_fix_paths_rename(id, adt, owner_id, prefix, nullptr, nullptr, oldSubscript,
\* newSubscript, false): the F-curves of the path prefix[oldSubscript] get the path
\* prefix[newSubscript]; renames counts the renames of an F-curve (history: nothing
\* reads it)
BKE_animdata_fix_paths_rename(fcurves, name, oldSubscript, newSubscript) ==
  [k \in 1..Len(fcurves) |->
     IF fcurves[k].node = name /\ fcurves[k].input = oldSubscript
       THEN [fcurves[k] EXCEPT !.input = newSubscript, !.renames = @ + 1]
     ELSE fcurves[k]]

\* for (const auto &entry : remap_table), from the entry of index i on
RECURSIVE remap_inputs(_, _, _)
remap_inputs(fcurves, name, i) ==
  IF i > Len(remap_table) THEN fcurves
  ELSE remap_inputs(BKE_animdata_fix_paths_rename(fcurves, name, remap_table[i][1],
                                                  remap_table[i][2]),
                    name, i + 1)

\* LISTBASE_FOREACH (bNode *, node, &ntree->nodes), from the node of index i on
RECURSIVE version_principled_bsdf_update_animdata(_, _, _)
version_principled_bsdf_update_animdata(nodes, fcurves, i) ==
  IF i > Len(nodes) THEN fcurves
  ELSE IF nodes[i].type # "SH_NODE_BSDF_PRINCIPLED"
    THEN version_principled_bsdf_update_animdata(nodes, fcurves, i + 1)
  ELSE version_principled_bsdf_update_animdata(
         nodes,
         remap_inputs(BKE_animdata_fix_paths_remove(
                        BKE_animdata_fix_paths_remove(fcurves, nodes[i].name, 18),
                        nodes[i].name, 3),
                      nodes[i].name, 1),
         i + 1)

\* the block of lines 789-797, gated by !MAIN_VERSION_FILE_ATLEAST(bmain, 400, 24), on
\* the one shader tree of the document
UpdateAnimdata ==
  /\ pc = 1
  /\ pc' = 2
  /\ IF ~MAIN_VERSION_FILE_ATLEAST(400, 24)
       THEN bmain' = [bmain EXCEPT !.fcurves =
                        version_principled_bsdf_update_animdata(bmain.nodes, @, 1)]
     ELSE bmain' = bmain
  /\ UNCHANGED <<versionfile, subversionfile, load, executed, walked, docvars, ntree,
                 issued, calls, alpha, reports, ime>>

\* the nodes of the stored tree: two Principled BSDF nodes and an emission node
AnimatedNodes ==
  << [name |-> "Principled BSDF", type |-> "SH_NODE_BSDF_PRINCIPLED"],
     [name |-> "Emission", type |-> "SH_NODE_EMISSION"],
     [name |-> "Principled BSDF.001", type |-> "SH_NODE_BSDF_PRINCIPLED"] >>

\* the F-curves that a file can hold
Fcurves ==
  {[node |-> AnimatedNodes[n].name, input |-> input, renames |-> 0] :
     n \in 1..Len(AnimatedNodes), input \in 0..MaxInput}

\* the lists of at most n stored F-curves: the first one on any node, the others on the
\* first node
RECURSIVE FcurveLists(_)
FcurveLists(n) ==
  IF n = 0 THEN {<<>>}
  ELSE IF n = 1 THEN {<<>>} \cup {<<fcu>> : fcu \in Fcurves}
  ELSE FcurveLists(n - 1)
       \cup {Append(list, fcu) :
               list \in {l \in FcurveLists(n - 1) : Len(l) = n - 1},
               fcu \in {f \in Fcurves : f.node = AnimatedNodes[1].name}}

InitAnimdata ==
  /\ versionfile = 400
  /\ NoNodeTrees
  /\ pc = 1
  /\ load = 1
  /\ executed = <<>>
  /\ walked = <<>>
  /\ ntree = EmptyNodeTree
  /\ issued = <<>>
  /\ calls = <<>>
  /\ alpha = <<>>
  /\ \/ /\ subversionfile = 23
        /\ \E fcurves \in FcurveLists(MaxFcurves) :
             bmain = [nodes |-> AnimatedNodes, fcurves |-> fcurves]
     \/ /\ subversionfile = 24
        /\ \E fcurves \in FcurveLists(1) :
             bmain = [nodes |-> AnimatedNodes, fcurves |-> fcurves]
  /\ reports = <<>>
  /\ ime = <<>>

NextAnimdata == UpdateAnimdata

SpecAnimdata == InitAnimdata /\ [][NextAnimdata]_vars

(***************************************************************************)
(* The input samples of the paint tools (lines 3430-3484).                 *)
(***************************************************************************)
\* the highest num_input_samples_deprecated of a stored paint tool
MaxSamples == 3

\* most brushes of a document
MaxBrushes == 2

\* the paint tools of ToolSettings that are pointers, in the order of input_sample_values
PaintTools ==
  <<"sculpt", "curves_sculpt", "gp_paint", "gp_vertexpaint", "gp_sculptpaint",
    "gp_weightpaint", "vpaint", "wpaint">>

\* ts->tool != nullptr ? ts->tool->paint.num_input_samples_deprecated : 1; a pointer is
\* <<>> (nullptr) or <<the paint settings>>
num_input_samples(tool) ==
  IF tool = <<>> THEN 1 ELSE tool[1].num_input_samples_deprecated

\* input_sample_values (lines 3433-3459): no statement writes the element of index 3,
\* which keeps the value that the stack holds there
input_sample_values(ts, stack) ==
  << ts.imapaint.num_input_samples_deprecated,
     num_input_samples(ts.sculpt),
     num_input_samples(ts.curves_sculpt),
     stack,
     num_input_samples(ts.gp_paint),
     num_input_samples(ts.gp_vertexpaint),
     num_input_samples(ts.gp_sculptpaint),
     num_input_samples(ts.gp_weightpaint),
     num_input_samples(ts.vpaint),
     num_input_samples(ts.wpaint) >>

\* the loop of lines 3461-3475 from the 1-based index i on: unified_value after it
RECURSIVE unify_input_samples(_, _, _)
unify_input_samples(values, i, unified_value) ==
  IF i > Len(values) THEN unified_value
  ELSE IF values[i] # 1
    THEN IF unified_value = 1 THEN unify_input_samples(values, i + 1, values[i])
         \* break
         ELSE unified_value
  ELSE unify_input_samples(values, i + 1, unified_value)

\* the block of lines 3430-3484, gated by !MAIN_VERSION_FILE_ATLEAST(bmain, 401, 17); the
\* read of input_sample_values[3] gives any value
UnifyInputSamples ==
  /\ pc = 1
  /\ pc' = 2
  /\ IF ~MAIN_VERSION_FILE_ATLEAST(401, 17)
       THEN \E stack \in [1..Len(bmain.scenes) -> 0..MaxSamples] :
              bmain' =
                [scenes |->
                   [n \in 1..Len(bmain.scenes) |->
                      [bmain.scenes[n] EXCEPT
                         !.toolsettings.unified_paint_settings.input_samples =
                           unify_input_samples(
                             input_sample_values(bmain.scenes[n].toolsettings, stack[n]),
                             1, 1)]],
                 brushes |->
                   [n \in 1..Len(bmain.brushes) |->
                      [bmain.brushes[n] EXCEPT !.input_samples = 1]]]
     ELSE bmain' = bmain
  /\ UNCHANGED <<versionfile, subversionfile, load, executed, walked, docvars, ntree,
                 issued, calls, alpha, reports, ime>>

\* the tool settings where every paint tool exists with the default of one sample
DefaultToolSettings ==
  [imapaint |-> [num_input_samples_deprecated |-> 1],
   sculpt |-> <<[num_input_samples_deprecated |-> 1]>>,
   curves_sculpt |-> <<[num_input_samples_deprecated |-> 1]>>,
   gp_paint |-> <<[num_input_samples_deprecated |-> 1]>>,
   gp_vertexpaint |-> <<[num_input_samples_deprecated |-> 1]>>,
   gp_sculptpaint |-> <<[num_input_samples_deprecated |-> 1]>>,
   gp_weightpaint |-> <<[num_input_samples_deprecated |-> 1]>>,
   vpaint |-> <<[num_input_samples_deprecated |-> 1]>>,
   wpaint |-> <<[num_input_samples_deprecated |-> 1]>>,
   unified_paint_settings |-> [input_samples |-> 0]]

\* the stored tool settings: at most two paint tools are not the default, absent or
\* with more samples than one
StoredToolSettings ==
  {[[[DefaultToolSettings
        EXCEPT !.imapaint = [num_input_samples_deprecated |-> image]]
       EXCEPT ![PaintTools[i]] = a]
      EXCEPT ![PaintTools[j]] = b] :
     image \in 1..MaxSamples,
     i \in {1, 2, 4},
     j \in {3, 7, 8},
     a \in {<<>>} \cup {<<[num_input_samples_deprecated |-> v]>> : v \in 1..MaxSamples},
     b \in {<<>>} \cup {<<[num_input_samples_deprecated |-> v]>> : v \in 1..MaxSamples}}

\* the lists of at most n stored brushes
RECURSIVE BrushLists(_)
BrushLists(n) ==
  IF n = 0 THEN {<<>>}
  ELSE BrushLists(n - 1)
       \cup {Append(list, [input_samples |-> v]) :
               list \in {l \in BrushLists(n - 1) : Len(l) = n - 1}, v \in {1, MaxSamples}}

InitSamples ==
  /\ versionfile = 401
  /\ subversionfile \in {16, 17}
  /\ NoNodeTrees
  /\ pc = 1
  /\ load = 1
  /\ executed = <<>>
  /\ walked = <<>>
  /\ ntree = EmptyNodeTree
  /\ issued = <<>>
  /\ calls = <<>>
  /\ alpha = <<>>
  /\ \E ts \in StoredToolSettings, brushes \in BrushLists(MaxBrushes) :
       bmain = [scenes |-> <<[toolsettings |-> ts]>>, brushes |-> brushes]
  /\ reports = <<>>
  /\ ime = <<>>

NextSamples == UnifyInputSamples

SpecSamples == InitSamples /\ [][NextSamples]_vars

Done == ~InLoad
TypeOK == pc \in 1..(Len(Registry) + 1)

(***************************************************************************)
(* Properties of the version gate and of the registry.                     *)
(***************************************************************************)
\* the stored version tag is strictly below v in lexicographic (major, minor) order
StoredBelow(v) ==
  \/ versionfile < v[1]
  \/ versionfile = v[1] /\ subversionfile < v[2]

\* v is at or below w in lexicographic order
AtOrBelow(v, w) == v[1] < w[1] \/ (v[1] = w[1] /\ v[2] <= w[2])

\* how often block i ran in this load
TimesRun(i) == Cardinality({k \in 1..Len(executed) : executed[k] = i})

\* the blocks evaluated so far in this load
Evaluated == 1..(pc - 1)

\* the index in Registry of the block that starts at a source line
BlockAt(line) == CHOOSE i \in 1..Len(Registry) : Registry[i].line = line

\* C1 as stated: at the end of a load every block with a guard
\* !MAIN_VERSION_FILE_ATLEAST(M, m) has run iff the stored tag is strictly below (M, m), and
\* no block has run more than once
C1_AsStated ==
  /\ Done => \A i \in Evaluated :
       Registry[i].gate \in {"not_atleast", "atleast_and_not_atleast"}
         => (TimesRun(i) > 0 <=> StoredBelow(Registry[i].ver))
  /\ Done => \A i \in 1..Len(Registry) : TimesRun(i) <= 1

\* C1, amended: at the end of a load,
\* a block guarded by !MAIN_VERSION_FILE_ATLEAST(M, m) alone has run iff the
\* stored tag is strictly below (M, m); the subtype fix (line 3360) has run iff the stored
\* tag is at or above 400.20 and strictly below 401.11; the else branch of the 400.20
\* block has run iff the stored tag is at or above 400.20; no block has run more than
\* once in this load
C1_Gating ==
  /\ Done => \A i \in Evaluated :
       LET b == Registry[i]
       IN /\ b.gate = "not_atleast" => (TimesRun(i) > 0 <=> StoredBelow(b.ver))
          /\ b.gate = "atleast_and_not_atleast"
               => (TimesRun(i) > 0 <=> (~StoredBelow(b.lo) /\ StoredBelow(b.ver)))
          /\ b.gate = "else" => (TimesRun(i) > 0 <=> ~StoredBelow(b.ver))
  /\ Done => \A i \in 1..Len(Registry) : TimesRun(i) <= 1

\* the load of a file stored between 400.20 and 401.11 is over: the subtype fix has run,
\* other blocks have not
C1_Witness ==
  /\ Done
  /\ load = 1
  /\ TimesRun(BlockAt(3360)) = 1
  /\ TimesRun(BlockAt(2894)) = 0
  /\ TimesRun(BlockAt(3368)) = 1

GuardsAscend(except) ==
  \A k, l \in 1..Len(executed) :
    LET i == executed[k]
        j == executed[l]
    IN (/\ k < l
        /\ Registry[i].gate # "always" /\ Registry[j].gate # "always"
        /\ Registry[i].line \notin except /\ Registry[j].line \notin except
        /\ (i <= Len(blo_do_versions_400) <=> j <= Len(blo_do_versions_400)))
         => AtOrBelow(Registry[i].ver, Registry[j].ver)

RewriteBlocks == {2642, 2674, 2953, 3187, 3335}

Visits(trees, t) == Cardinality({k \in 1..Len(trees) : trees[k] = t})

\* the trees embedded in an ID
EmbeddedTrees == {embedded[i].nodetree : i \in 1..Len(embedded)} \ {0}

Role(item) == item.flag \cap {"NODE_INTERFACE_SOCKET_INPUT", "NODE_INTERFACE_SOCKET_OUTPUT"}

\* C8: when the 400.20 block converts a tree with the legacy lists outputs = [o1..om] and
\* inputs = [i1..in], the root panel gets exactly m + n items: o1..om in order, each
\* output-only, then i1..in in order, each input-only, every item with the name and the
\* identifier of its legacy socket
C8_Conversion ==
  [][(InLoad /\ Block.line = 2894 /\ executed' # executed) =>
       \A t \in Trees :
         LET outputs == outputs_legacy[t]
             inputs == inputs_legacy[t]
             m == Len(outputs)
             n == Len(inputs)
             items == tree_interface'[t].root_panel.items
         IN /\ Len(items) = m + n
            /\ \A k \in 1..m :
                 /\ IsSocket(items[k])
                 /\ Role(items[k]) = {"NODE_INTERFACE_SOCKET_OUTPUT"}
                 /\ items[k].name = outputs[k].name
                 /\ items[k].identifier = outputs[k].identifier
            /\ \A k \in 1..n :
                 /\ IsSocket(items[m + k])
                 /\ Role(items[m + k]) = {"NODE_INTERFACE_SOCKET_INPUT"}
                 /\ items[m + k].name = inputs[k].name
                 /\ items[m + k].identifier = inputs[k].identifier]_vars

\* the 400.20 block has converted two outputs and one input of tree 1
C8_Witness ==
  /\ pc > 1
  /\ Registry[pc - 1].line = 2894
  /\ executed # <<>> /\ executed[Len(executed)] = pc - 1
  /\ Len(tree_interface[1].root_panel.items) = 3
  /\ tree_interface[1].root_panel.items[2].identifier = <<"Output_", 2>>
  /\ tree_interface[1].root_panel.items[3].identifier = <<"Input_", 1>>

\* both the legacy lists and the root panel of tree t hold items
BothPopulated(t) ==
  /\ inputs_legacy[t] # <<>> \/ outputs_legacy[t] # <<>>
  /\ tree_interface[t].root_panel.items # <<>>

DualRole(iface) ==
  LET all == foreach_item(iface.root_panel.items)
  IN {all[i] : i \in {k \in 1..Len(all) :
                        /\ IsSocket(all[k])
                        /\ "NODE_INTERFACE_SOCKET_INPUT" \in all[k].flag
                        /\ "NODE_INTERFACE_SOCKET_OUTPUT" \in all[k].flag}}

\* the sockets of an interface with the display name of s
Named(iface, s) ==
  LET all == foreach_item(iface.root_panel.items)
  IN {all[i] : i \in {k \in 1..Len(all) : IsSocket(all[k]) /\ all[k].name = s.name}}

\* in iface the stored socket s has become exactly two items of its name in the same
\* panel, with distinct identifiers: s itself, output-only, and a copy, input-only
IsSplit(iface, s) ==
  /\ Cardinality(Named(iface, s)) = 2
  /\ \E a, b \in Named(iface, s) :
       /\ a.ptr = s.ptr /\ b.ptr # s.ptr
       /\ Role(a) = {"NODE_INTERFACE_SOCKET_OUTPUT"}
       /\ Role(b) = {"NODE_INTERFACE_SOCKET_INPUT"}
       /\ a.identifier # b.identifier
       /\ ParentOf(iface.root_panel, a.ptr) = ParentOf(iface.root_panel, b.ptr)

\* the two items of the name of s are next to each other in their panel
IsAdjacent(iface, s) ==
  \A a, b \in Named(iface, s) :
    a.ptr # b.ptr =>
      find_item_position(iface.root_panel, a.ptr) - find_item_position(iface.root_panel, b.ptr)
        \in {-1, 1}

\* in the stored interface a panel item comes before s in its panel, and the panel does
\* not allow sockets after panels
PanelAbove(iface, s) ==
  LET parent == PanelAt(iface.root_panel, ParentOf(iface.root_panel, s.ptr))
  IN /\ "NODE_INTERFACE_PANEL_ALLOW_SOCKETS_AFTER_PANELS" \notin parent.flag
     /\ \E i \in 1..Len(parent.items) :
          /\ IsPanel(parent.items[i])
          /\ i - 1 < find_item_position(iface.root_panel, s.ptr)

\* C10 as stated: at the end of the load of a document stored below 400.24, every stored
\* item flagged both input and output has become exactly two adjacent items in the same
\* panel, with the same name and distinct identifiers, one input-only and one output-only
C10_AsStated ==
  (Done /\ load = 1 /\ StoredBelow(<<400, 24>>)) =>
    \A t \in Trees : \A s \in DualRole(stored[t].tree_interface) :
      IsSplit(tree_interface[t], s) /\ IsAdjacent(tree_interface[t], s)

\* C10, amended: in the load of a document stored below 400.24, from the 400.24 block on,
\* every stored item flagged both input and output has become exactly two items in the
\* same panel, with the same name and distinct identifiers, the item itself output-only and
\* a copy input-only. Right after the 400.24 block the two are adjacent unless a panel item
\* comes before the stored item in a panel that does not allow sockets after panels (the
\* copy then goes before the first panel item). They need not be adjacent at the end of
\* the load: the 400.33 block sorts the outputs of a top-level tree above its inputs.
C10_Split ==
  (load = 1 /\ StoredBelow(<<400, 24>>) /\ pc > BlockAt(2953)) =>
    \A t \in Trees : \A s \in DualRole(stored[t].tree_interface) :
      /\ IsSplit(tree_interface[t], s)
      /\ (pc = BlockAt(2953) + 1 /\ ~PanelAbove(stored[t].tree_interface, s))
           => IsAdjacent(tree_interface[t], s)

\* the 400.24 block has split the dual-role socket of a panel of tree 2 in two adjacent items
C10_Witness ==
  /\ load = 1
  /\ pc = BlockAt(2953) + 1
  /\ executed # <<>> /\ executed[Len(executed)] = BlockAt(2953)
  /\ \E s \in DualRole(stored[2].tree_interface) :
       /\ ParentOf(stored[2].tree_interface.root_panel, s.ptr) # 1
       /\ IsSplit(tree_interface[2], s)
       /\ IsAdjacent(tree_interface[2], s)

(***************************************************************************)
(* Properties of the node graph rewrites.                                  *)
(***************************************************************************)
\* the node of address ptr is in the tree and has a socket of the identifier on the side
Resolves(tree, ptr, in_out, identifier) ==
  \E i \in 1..Len(tree.nodes) :
    /\ tree.nodes[i].ptr = ptr
    /\ nodeFindSocket(tree.nodes[i], in_out, identifier) # ""

\* both endpoints of every link of the tree are sockets of nodes of the tree
LinksValid(tree) ==
  \A i \in 1..Len(tree.links) :
    /\ Resolves(tree, tree.links[i].fromnode, "SOCK_OUT", tree.links[i].fromsock)
    /\ Resolves(tree, tree.links[i].tonode, "SOCK_IN", tree.links[i].tosock)

\* the links of the tree that touch the socket
Touching(tree, ptr, in_out, identifier) ==
  {i \in 1..Len(tree.links) :
     IF in_out = "SOCK_IN"
       THEN tree.links[i].tonode = ptr /\ tree.links[i].tosock = identifier
     ELSE tree.links[i].fromnode = ptr /\ tree.links[i].fromsock = identifier}

Entering(tree) ==
  [s \in Range(InputsOf(tree.nodes)) |-> Touching(tree, s[1], "SOCK_IN", s[2])]

ForbidsSocketsAfterPanels(panel) ==
  "NODE_INTERFACE_PANEL_ALLOW_SOCKETS_AFTER_PANELS" \notin panel.flag

\* the 0-based positions at which an item of the type may be inserted in the items of a
\* panel that forbids sockets after panels: a socket where no panel comes before it, a
\* panel where no socket comes after it
LegalPositions(items, item_type) ==
  {pos \in 0..Len(items) :
     IF item_type = "NODE_INTERFACE_SOCKET"
       THEN \A i \in 1..pos : ~IsPanel(items[i])
     ELSE \A i \in (pos + 1)..Len(items) : ~IsSocket(items[i])}

\* the distance of two positions
Distance(a, b) == IF a < b THEN b - a ELSE a - b

\* the legal position nearest to the requested one
NearestLegal(items, item_type, position) ==
  CHOOSE pos \in LegalPositions(items, item_type) :
    \A other \in LegalPositions(items, item_type) :
      other # pos => Distance(pos, position) < Distance(other, position)

\* the 0-based position before the first panel item, the one after the last socket item
BeforeFirstPanel(items) == Min({i \in 1..Len(items) : IsPanel(items[i])}) - 1
AfterLastSocket(items) == Max({i \in 1..Len(items) : IsSocket(items[i])})

\* the function logged last, if it is prim
Last(prim) == IF issued # <<>> /\ issued[1].prim = prim THEN {issued[1]} ELSE {}

\* C11: version_nodes_insert_item into a panel that forbids sockets after panels puts
\* the socket at the requested position when that is legal and otherwise at the nearest
\* legal position, which for a request within the panel is the one before the first
\* panel item; the panel has one item more, its other items are in the order they had, the
\* other panels are as they were, and if all sockets of the panel came before all its
\* panels they still do. For a panel item, the position that
\* version_nodes_find_valid_insert_position_for_item returns for a request within the
\* panel is legal, is the requested one when that is legal and otherwise the one after
\* the last socket item.
C11_ConstrainedInsert ==
  /\ \A p \in Last("version_nodes_insert_item") :
       LET before == PanelAt(p.before, p.arg[1])
           after == PanelAt(p.after, p.arg[1])
           legal == LegalPositions(before.items, "NODE_INTERFACE_SOCKET")
           at == find_item_position(p.after, p.arg[2])
       IN ForbidsSocketsAfterPanels(before) =>
            /\ ParentOf(p.after, p.arg[2]) = p.arg[1]
            /\ p.arg[3] \in legal => at = p.arg[3]
            /\ at = NearestLegal(before.items, "NODE_INTERFACE_SOCKET", p.arg[3])
            /\ (p.arg[3] \notin legal /\ p.arg[3] \in 0..Len(before.items))
                 => at = BeforeFirstPanel(before.items)
            /\ Len(after.items) = Len(before.items) + 1
            /\ SelectSeq(after.items, LAMBDA item : item.ptr # p.arg[2]) = before.items
            /\ p.after = ReplacePanel(p.before, p.arg[1], after)
            /\ SocketsAbovePanels(before.items) => SocketsAbovePanels(after.items)
  /\ \A p \in Last("version_nodes_find_valid_insert_position_for_item") :
       LET panel == PanelAt(p.before, p.arg[1])
           legal == LegalPositions(panel.items, "NODE_INTERFACE_PANEL")
       IN (/\ ForbidsSocketsAfterPanels(panel)
           /\ p.arg[2] = "NODE_INTERFACE_PANEL"
           /\ p.arg[3] \in 0..Len(panel.items)) =>
            /\ p.after = NearestLegal(panel.items, "NODE_INTERFACE_PANEL", p.arg[3])
            /\ p.arg[3] \in legal => p.after = p.arg[3]
            /\ p.arg[3] \notin legal => p.after = AfterLastSocket(panel.items)

\* a socket was to go behind the panel item of a root panel that forbids sockets after
\* panels, and went before it, after the socket that the panel had
C11_Witness ==
  \E p \in Last("version_nodes_insert_item") :
    /\ p.arg[1] = 1
    /\ ForbidsSocketsAfterPanels(p.before)
    /\ Len(p.before.items) = 2
    /\ IsSocket(p.before.items[1]) /\ IsPanel(p.before.items[2])
    /\ p.arg[3] = 2
    /\ find_item_position(p.after, p.arg[2]) = 1

(***************************************************************************)
(* Properties of the sorting of interface items.                           *)
(***************************************************************************)
\* the panels at and below a root panel
PanelsOf(root) ==
  LET all == foreach_item(root.items)
  IN {root} \cup {all[i] : i \in {k \in 1..Len(all) : IsPanel(all[k])}}

\* what item_compare tells apart: panels, output sockets (sockets with the output flag)
\* and input sockets (sockets without it)
SortClass(item) ==
  IF IsPanel(item) THEN "panel"
  ELSE IF "NODE_INTERFACE_SOCKET_OUTPUT" \in item.flag THEN "output"
  ELSE "input"

\* sockets come before panels, and among sockets outputs before inputs
InSortOrder(items) ==
  \A i, j \in 1..Len(items) :
    i < j =>
      /\ ~(SortClass(items[i]) = "panel" /\ SortClass(items[j]) # "panel")
      /\ ~(SortClass(items[i]) = "input" /\ SortClass(items[j]) = "output")

\* the items that are of one class are in the same order in both sequences
SameOrderWithinClass(before, after) ==
  \A class \in {"panel", "output", "input"} :
    LET of_class(items) == SelectSeq(items, LAMBDA item : SortClass(item) = class)
        ptrs(items) == [i \in 1..Len(items) |-> items[i].ptr]
    IN ptrs(of_class(before)) = ptrs(of_class(after))

\* C12: after versioning_node_group_sort_sockets_recursive, in every panel of the
\* interface, the root and the panels nested at any depth, all socket items precede all
\* panel items and among the sockets all outputs precede all inputs; and in every panel
\* the items of the same kind and role are in the order they had
C12_Normalized ==
  \A p \in Last("versioning_node_group_sort_sockets_recursive") :
    /\ \A panel \in PanelsOf(p.after) : InSortOrder(panel.items)
    /\ \A panel \in PanelsOf(p.before) :
         /\ PanelAt(p.after, panel.ptr) # <<>>
         /\ SameOrderWithinClass(panel.items, PanelAt(p.after, panel.ptr).items)

\* the sort has moved the output of a panel nested in a panel of the root above the input
\* of the panel, and the panel of the root below the socket that came after it
C12_Witness ==
  \E p \in Last("versioning_node_group_sort_sockets_recursive") :
    /\ Len(p.before.items) = 2
    /\ IsPanel(p.before.items[1]) /\ IsSocket(p.before.items[2])
    /\ IsPanel(p.after.items[2])
    /\ \E nested \in PanelsOf(p.before) :
         /\ ParentOf(p.before, nested.ptr) \notin {-1, 1}
         /\ SortClass(nested.items[1]) = "input"
         /\ SortClass(PanelAt(p.after, nested.ptr).items[1]) = "output"

\* what an interface holds, whatever the order: every socket with all that it stores and
\* with the panel that owns it, every panel with its name, its flag and the panel that
\* owns it
Holdings(root) ==
  LET all == foreach_item(root.items)
  IN {IF IsSocket(all[i]) THEN <<all[i], ParentOf(root, all[i].ptr)>>
      ELSE <<all[i].ptr, all[i].name, all[i].flag, ParentOf(root, all[i].ptr)>> :
        i \in 1..Len(all)}

\* C13: versioning_node_group_sort_sockets_recursive applied to the interface that it
\* left changes nothing; and an application adds no item, removes none, and leaves the
\* identifier, the flags and the owning panel of every item as they were
C13_SortIdempotent ==
  /\ [][(/\ Last("versioning_node_group_sort_sockets_recursive") # {}
         /\ issued[1].after = tree_interface[1].root_panel
         /\ issued'[1].prim = "versioning_node_group_sort_sockets_recursive")
          => tree_interface' = tree_interface]_vars
  /\ [](\A p \in Last("versioning_node_group_sort_sockets_recursive") :
          /\ Len(foreach_item(p.after.items)) = Len(foreach_item(p.before.items))
          /\ Holdings(p.after) = Holdings(p.before))

\* the sort has run on an interface that an earlier sort had put in order, after a
\* socket was inserted
C13_Witness ==
  \E p \in Last("versioning_node_group_sort_sockets_recursive") :
    /\ p.before = p.after
    /\ p.before # stored[1].tree_interface.root_panel
    /\ Len(foreach_item(p.before.items))
         = Len(foreach_item(stored[1].tree_interface.root_panel.items)) + 1
    /\ \A panel \in PanelsOf(p.after) : InSortOrder(panel.items)
    /\ \E panel \in PanelsOf(stored[1].tree_interface.root_panel) : ~InSortOrder(panel.items)

(***************************************************************************)
(* Properties of the repair of socket type names.                          *)
(***************************************************************************)
\* the type names with a subtype suffix, and the base type names
SubtypeIdnames == DOMAIN subtypes_map
BaseIdnames == {"NodeSocketFloat", "NodeSocketInt", "NodeSocketVector"}

\* the sockets at and below a root panel
SocketsOf(root) ==
  LET all == foreach_item(root.items)
  IN {all[i] : i \in {k \in 1..Len(all) : IsSocket(all[k])}}

\* C14: when the block at line 3360 runs versioning_fix_socket_subtype_idnames, in every
\* tree every socket whose type name has a subtype suffix gets the base type name of the
\* suffixed name, every other socket keeps its type name, and nothing else changes: the
\* items are the same, in the same panels and the same order, each with its name,
\* identifier, flags and stored value; and at the end of the load of a document stored
\* below 401.11 no interface socket has a type name with a subtype suffix
C14_SubtypeRepair ==
  /\ [][(InLoad /\ Block.line = 3360 /\ executed' # executed) =>
          \A t \in Trees :
            LET before == foreach_item(tree_interface[t].root_panel.items)
                after == foreach_item(tree_interface'[t].root_panel.items)
            IN /\ Len(after) = Len(before)
               /\ tree_interface'[t].next_uid = tree_interface[t].next_uid
               /\ tree_interface'[t].root_panel.flag = tree_interface[t].root_panel.flag
               /\ \A i \in 1..Len(before) :
                    /\ ParentOf(tree_interface'[t].root_panel, after[i].ptr)
                         = ParentOf(tree_interface[t].root_panel, before[i].ptr)
                    /\ IF IsSocket(before[i])
                         THEN /\ after[i] = [before[i] EXCEPT !.socket_type = after[i].socket_type]
                              /\ before[i].socket_type \in SubtypeIdnames
                                   => /\ after[i].socket_type = subtypes_map[before[i].socket_type]
                                      /\ after[i].socket_type \in BaseIdnames
                              /\ before[i].socket_type \notin SubtypeIdnames
                                   => after[i].socket_type = before[i].socket_type
                       ELSE /\ IsPanel(after[i])
                            /\ after[i].ptr = before[i].ptr
                            /\ after[i].name = before[i].name
                            /\ after[i].flag = before[i].flag]_vars
  /\ []((Done /\ load = 1 /\ StoredBelow(<<401, 11>>)) =>
          \A t \in Trees : \A s \in SocketsOf(tree_interface[t].root_panel) :
            s.socket_type \notin SubtypeIdnames)

\* the block at line 3360 has run on a tree that was stored with a socket of the type
\* name NodeSocketFloatFactor in a panel of the root panel: the socket has the type name
\* NodeSocketFloat and the value it had
C14_Witness ==
  /\ load = 1
  /\ pc = BlockAt(3360) + 1
  /\ executed # <<>> /\ executed[Len(executed)] = BlockAt(3360)
  /\ \E s \in SocketsOf(stored[2].tree_interface.root_panel) :
       /\ ParentOf(stored[2].tree_interface.root_panel, s.ptr) # 1
       /\ s.socket_type = "NodeSocketFloatFactor"
       /\ \E r \in SocketsOf(tree_interface[2].root_panel) :
            /\ r.ptr = s.ptr
            /\ r.socket_type = "NodeSocketFloat"
            /\ r.socket_data = s.socket_data

(***************************************************************************)
(* Properties of the identifiers of interface items.                       *)
(***************************************************************************)
\* no two sockets of the interface have the same identifier
IdentifiersDistinct(iface) ==
  \A a, b \in SocketsOf(iface.root_panel) : a.ptr # b.ptr => a.identifier # b.identifier

\* the sockets of the interface after that were not in the interface before
NewSockets(before, after) ==
  {s \in SocketsOf(after.root_panel) :
     \A r \in SocketsOf(before.root_panel) : r.ptr # s.ptr}

\* C15: the identifiers of the interface sockets of a tree are pairwise distinct, during
\* and after the load; when the 400.24 block splits the n dual-role sockets of a tree,
\* the n copies get the identifiers Socket_<next_uid>, ..., Socket_<next_uid + n - 1>,
\* one each, none of them the identifier of a socket that the interface had, and next_uid
\* is n higher; no step lowers next_uid
C15_IdentifiersUnique ==
  /\ [](\A t \in Trees : IdentifiersDistinct(tree_interface[t]))
  /\ [][\A t \in Trees :
          LET before == tree_interface[t]
              after == tree_interface'[t]
              n == Cardinality(DualRole(before))
              minted == {s.identifier : s \in NewSockets(before, after)}
          IN /\ load' = load => after.next_uid >= before.next_uid
             /\ (InLoad /\ Block.line = 2953 /\ executed' # executed) =>
                  /\ after.next_uid = before.next_uid + n
                  /\ Cardinality(NewSockets(before, after)) = n
                  /\ minted = {BLI_sprintfN_Socket(uid) :
                                 uid \in before.next_uid..(after.next_uid - 1)}
                  /\ \A r \in SocketsOf(before.root_panel) : r.identifier \notin minted
                  /\ \A r \in SocketsOf(before.root_panel) :
                       \E s \in SocketsOf(after.root_panel) :
                         s.ptr = r.ptr /\ s.identifier = r.identifier]_vars

\* the 400.24 block has split the two dual-role sockets of tree 1, whose identifiers were
\* Socket_0 and Socket_1 and whose next_uid was 2: the copies are Socket_2 and Socket_3
C15_Witness ==
  /\ load = 1
  /\ pc = BlockAt(2953) + 1
  /\ executed # <<>> /\ executed[Len(executed)] = BlockAt(2953)
  /\ stored[1].tree_interface.next_uid = 2
  /\ Cardinality(DualRole(stored[1].tree_interface)) = 2
  /\ tree_interface[1].next_uid = 4
  /\ {s.identifier : s \in SocketsOf(tree_interface[1].root_panel)}
       = {BLI_sprintfN_Socket(uid) : uid \in 0..3}

(***************************************************************************)
(* The alpha source.                                                       *)
(***************************************************************************)
\* the calls of prim that versioning_eevee_alpha_source_get has made
Logged(prim) == {issued[i] : i \in {j \in 1..Len(issued) : issued[j].prim = prim}}

\* a is semi-transparent, driven by socket, with the sense inverted or not
DrivenBy(a, socket, inverted) ==
  a.state = "ALPHA_SEMI_TRANSPARENT" /\ a.socket = socket /\ a.is_transparency = inverted

\* C16 as stated: AlphaSource::mix(a, b, factor) is complex if either operand is complex,
\* complex if either operand is semi-transparent and the other is any kind of transparent,
\* fully transparent if both are fully transparent, opaque if both are opaque, and
\* otherwise semi-transparent driven by the factor socket, with the sense set by which
\* operand is the transparent one.
C16_AsStated ==
  \A p \in Logged("AlphaSource::mix") :
    LET a == p.arg[1]
        b == p.arg[2]
        transparent(x) == x.state # "ALPHA_OPAQUE"
        semi(x) == x.state = "ALPHA_SEMI_TRANSPARENT"
    IN IF a.state = "ALPHA_COMPLEX_MIX" \/ b.state = "ALPHA_COMPLEX_MIX"
         THEN p.after.state = "ALPHA_COMPLEX_MIX"
       ELSE IF (semi(a) /\ transparent(b)) \/ (semi(b) /\ transparent(a))
         THEN p.after.state = "ALPHA_COMPLEX_MIX"
       ELSE IF a.state = "ALPHA_FULLY_TRANSPARENT" /\ b.state = "ALPHA_FULLY_TRANSPARENT"
         THEN p.after.state = "ALPHA_FULLY_TRANSPARENT"
       ELSE IF a.state = "ALPHA_OPAQUE" /\ b.state = "ALPHA_OPAQUE"
         THEN p.after.state = "ALPHA_OPAQUE"
       ELSE DrivenBy(p.after, p.arg[3], ~transparent(a))

\* C16: AlphaSource::mix(a, b, factor) is complex if either operand is complex or
\* semi-transparent, whatever the other operand is; fully transparent, with no socket,
\* if both are fully transparent; opaque if both are opaque; and otherwise (one operand
\* fully transparent, the other opaque) semi-transparent driven by the factor socket,
\* with the sense inverted exactly when a is the opaque operand.
C16_Mix ==
  \A p \in Logged("AlphaSource::mix") :
    LET a == p.arg[1]
        b == p.arg[2]
        states == {a.state, b.state}
    IN /\ states \cap {"ALPHA_COMPLEX_MIX", "ALPHA_SEMI_TRANSPARENT"} # {}
            => p.after.state = "ALPHA_COMPLEX_MIX"
       /\ states = {"ALPHA_FULLY_TRANSPARENT"}
            => /\ p.after.state = "ALPHA_FULLY_TRANSPARENT"
               /\ p.after.socket = NullSocket
               /\ ~p.after.is_transparency
       /\ states = {"ALPHA_OPAQUE"} => p.after.state = "ALPHA_OPAQUE"
       /\ states = {"ALPHA_FULLY_TRANSPARENT", "ALPHA_OPAQUE"}
            => DrivenBy(p.after, p.arg[3], a.state = "ALPHA_OPAQUE")

\* a mix shader node has mixed a semi-transparent closure with an opaque one
C16_Witness ==
  /\ alpha # <<>>
  /\ \E p \in Logged("AlphaSource::mix") :
       /\ p.arg[1].state = "ALPHA_SEMI_TRANSPARENT"
       /\ p.arg[2].state = "ALPHA_OPAQUE"
       /\ p.after.state = "ALPHA_COMPLEX_MIX"

\* C17: AlphaSource::mix(a, b, f) and AlphaSource::mix(b, a, f) have the same
\* classification state, and a complex operand of AlphaSource::mix or AlphaSource::add
\* makes the result complex.
C17_Algebra ==
  /\ \A p \in Logged("AlphaSource::mix") :
       p.after.state = mix(p.arg[2], p.arg[1], p.arg[3]).state
  /\ \A p \in Logged("AlphaSource::mix") \cup Logged("AlphaSource::add") :
       "ALPHA_COMPLEX_MIX" \in {p.arg[1].state, p.arg[2].state}
         => p.after.state = "ALPHA_COMPLEX_MIX"

\* a mix shader node has mixed an opaque closure with a semi-transparent one, in that
\* order
C17_Witness ==
  /\ alpha # <<>>
  /\ \E p \in Logged("AlphaSource::mix") :
       /\ p.arg[1].state = "ALPHA_OPAQUE"
       /\ p.arg[2].state = "ALPHA_SEMI_TRANSPARENT"
       /\ p.after = mix(p.arg[2], p.arg[1], p.arg[3])

ReturnsOneInput(tree) ==
  \E i \in 1..Len(tree.nodes) :
    /\ tree.nodes[i].type = "SH_NODE_MIX_SHADER"
    /\ ~mixes(tree, tree.nodes[i])

\* C19 as stated: if the depth exceeds 100 on any path explored while the surface socket
\* is classified, the classification returned for the surface socket is complex.
C19_AsStated ==
  alpha # <<>> /\ Logged("depth > 100") # {} => alpha[1].state = "ALPHA_COMPLEX_MIX"

\* C19: a call of versioning_eevee_alpha_source_get with a depth above 100 returns
\* complex, and the classification returned for the surface socket is then complex
\* unless a mix shader node of the tree has an unlinked Fac of 0 or 1, which returns one
\* input and ignores what the other returned.
C19_DepthCap ==
  /\ \A p \in Logged("depth > 100") :
       p.arg[2] = DepthLimit + 1 /\ p.after.state = "ALPHA_COMPLEX_MIX"
  /\ \A i \in 1..Len(calls) : calls[i].depth = i - 1 /\ i - 1 <= DepthLimit + 1
  /\ alpha # <<>> /\ Logged("depth > 100") # {} /\ ~ReturnsOneInput(ntree)
       => alpha[1].state = "ALPHA_COMPLEX_MIX"

\* the depth went above 100 under an input of a mix shader node with a linked Fac, whose
\* other input is opaque, and the surface socket is complex
C19_Witness ==
  /\ alpha # <<>>
  /\ Logged("depth > 100") # {}
  /\ ~ReturnsOneInput(ntree)
  /\ \E p \in Logged("AlphaSource::mix") :
       {p.arg[1].state, p.arg[2].state} = {"ALPHA_COMPLEX_MIX", "ALPHA_OPAQUE"}
  /\ alpha[1].state = "ALPHA_COMPLEX_MIX"

\* C20: versioning_eevee_alpha_source_get, called on the surface socket of a material
\* tree, returns: no call is left in progress and the alpha source is known, also when
\* the links of the tree form a cycle through a reroute, mix shader or add shader node.
C20_Terminates == <>(calls = <<>> /\ alpha # <<>>)

\* versioning_eevee_alpha_source_get has returned on a tree where a reroute node is fed
\* by its own output, after going 101 calls deep
C20_Witness ==
  /\ calls = <<>>
  /\ alpha # <<>>
  /\ \E l \in 1..Len(ntree.links) :
       /\ ntree.links[l].fromnode = ntree.links[l].tonode
       /\ NodeAt(ntree, ntree.links[l].fromnode).type = "NODE_REROUTE"
  /\ \E p \in Logged("depth > 100") : p.arg[2] = DepthLimit + 1

\* the node that feeds the socket, or a node of no type when nothing does
Feeding(tree, socket) ==
  IF socket_link(tree, socket[1], socket[2]) = 0 THEN [type |-> "", ptr |-> 0]
  ELSE link_fromnode(tree, socket)

\* the closure socket that the classification of the surface socket comes from: the
\* surface socket, or the input of the reroute node that feeds it
ClosureSocket(tree) ==
  IF Feeding(tree, surface_socket(tree)).type = "NODE_REROUTE"
    THEN <<Feeding(tree, surface_socket(tree)).ptr, "Input">>
  ELSE surface_socket(tree)

\* the input socket of the node is not linked and has the value
Fixed(tree, node, identifier, value) ==
  /\ socket_link(tree, node.ptr, identifier) = 0
  /\ SocketAt(node, "SOCK_IN", identifier).value = value

C22_AsStated ==
  alpha # <<>> =>
    LET node == Feeding(ntree, ClosureSocket(ntree))
    IN node.type = "SH_NODE_EEVEE_SPECULAR" =>
         IF Fixed(ntree, node, "Transparency", 0) THEN alpha[1].state = "ALPHA_OPAQUE"
         ELSE IF Fixed(ntree, node, "Transparency", 100)
           THEN alpha[1].state = "ALPHA_FULLY_TRANSPARENT"
         ELSE DrivenBy(alpha[1], <<node.ptr, "Transparency">>, TRUE)

\* the block of lines 844-891 converts the materials in the step
BlendBlockRuns ==
  /\ pc = 1
  /\ pc' = 2
  /\ ~MAIN_VERSION_FILE_ATLEAST(402, 51)
  /\ bmain.scenes # <<>>
  /\ bmain.scenes[1].engine = "BLENDER_EEVEE"

\* the loop calls versioning_eevee_material_blend_mode_settings on the material
Converted(material) ==
  /\ material.use_nodes
  /\ material.nodetree # <<>>
  /\ material.blend_method \in {"MA_BM_SOLID", "MA_BM_CLIP"}
  /\ material.blend_shadow \in
       {"MA_BS_NONE", "MA_BS_SOLID"}
       \cup (IF material.blend_method = "MA_BM_CLIP" THEN {"MA_BS_CLIP"} ELSE {})
  /\ ~NoOutputNode(material.nodetree[1])

\* the classification of the surface socket of a converted material
Classification(material) ==
  versioning_eevee_alpha_source_get(material.nodetree[1],
                                    surface_socket(material.nodetree[1]), 0)

\* the reports of the list that name the material
Naming(list, material) ==
  SelectSeq(list, LAMBDA report : report.args = <<material.name>>)

\* C23: when the analyzer classifies the graph of a material as complex, the node tree
\* of the material is left unchanged, exactly one warning that names the material is
\* reported, and every other material of the document is still processed.
C23_ComplexSkipped ==
  [][BlendBlockRuns =>
       \A i \in 1..Len(bmain.materials) :
         (Converted(bmain.materials[i]) /\ is_complex(Classification(bmain.materials[i]))) =>
           /\ bmain'.materials[i] = bmain.materials[i]
           /\ Len(Naming(reports'.list, bmain.materials[i])) = 1
           /\ Naming(reports'.list, bmain.materials[i])[1].type = "RPT_WARNING"
           /\ Len(bmain'.materials) = Len(bmain.materials)
           /\ \A j \in 1..Len(bmain.materials) :
                j # i =>
                  LET alone == convert_blend_method(bmain.materials[j], <<>>)
                  IN /\ bmain'.materials[j] = alone.material
                     /\ Len(Naming(reports'.list, bmain.materials[j])) = Len(alone.list)]_vars

\* the block has left the first material, a mix shader of a semi-transparent and an opaque
\* closure, as it was, with one warning, and has put a math node in the second
C23_Witness ==
  /\ pc = 2
  /\ Len(bmain.materials) = 2
  /\ Converted(bmain.materials[1])
  /\ is_complex(Classification(bmain.materials[1]))
  /\ \E i \in 1..Len(bmain.materials[1].nodetree[1].nodes) :
       bmain.materials[1].nodetree[1].nodes[i].type = "SH_NODE_MIX_SHADER"
  /\ Len(reports.list) = 1
  /\ reports.list[1].args = <<bmain.materials[1].name>>
  /\ \E i \in 1..Len(bmain.materials[2].nodetree[1].nodes) :
       bmain.materials[2].nodetree[1].nodes[i].type = "SH_NODE_MATH"

\* the tree without the default value of the input socket
WithoutValue(tree, socket) ==
  OnSocket(tree, socket[1], "SOCK_IN", socket[2], LAMBDA sock : [sock EXCEPT !.value = 0])

\* the default value of the input socket, as a sequence: <<v>> for a float
ValueOf(tree, socket) ==
  LET sock == SocketAt(NodeAt(tree, socket[1]), "SOCK_IN", socket[2])
  IN IF sock.type = "SOCK_RGBA" THEN sock.value ELSE <<sock.value>>

\* the value, in every component, of a socket of the type
Filled(tree, socket, value) ==
  IF SocketAt(NodeAt(tree, socket[1]), "SOCK_IN", socket[2]).type = "SOCK_RGBA"
    THEN <<value, value, value>>
  ELSE <<value>>

\* the opaque constant of a classification: 1 for an alpha, 0 for a transparency
OpaqueConstant(a) == IF a.is_transparency THEN 0 ELSE 100

\* C24 as stated: a classification of opaque or fully transparent carries no driving
\* socket, and consuming it mutates nothing in the node tree.
C24_AsStated ==
  [][BlendBlockRuns =>
       \A i \in 1..Len(bmain.materials) :
         Converted(bmain.materials[i]) =>
           \E a \in {Classification(bmain.materials[i])} :
             (is_opaque(a) \/ is_fully_transparent(a)) =>
               /\ a.socket = NullSocket
               /\ bmain'.materials[i] = bmain.materials[i]]_vars

\* C24, amended: a classification of opaque carries no driving socket and consuming it
\* mutates nothing. A fully transparent classification carries the unconnected input it
\* was read from (none when it comes from a mix of two fully transparent closures);
\* consuming it adds no node and changes no link, and rewrites the default value of that
\* input only: to the opaque constant under a fully opaque target, and under clip to 0,
\* or to 1 for a colour of (1,1,1) with a threshold above 0.
C24_NoDrivingSocket ==
  [][BlendBlockRuns =>
       \A i \in 1..Len(bmain.materials) :
         Converted(bmain.materials[i]) =>
           \E a \in {Classification(bmain.materials[i])},
              tree \in {bmain.materials[i].nodetree[1]},
              after \in {bmain'.materials[i].nodetree[1]} :
             (is_opaque(a) \/ is_fully_transparent(a)) =>
               /\ is_opaque(a) => a.socket = NullSocket
               /\ a.socket = NullSocket => bmain'.materials[i] = bmain.materials[i]
               /\ a.socket # NullSocket =>
                    /\ socket_link(tree, a.socket[1], a.socket[2]) = 0
                    /\ bmain'.materials[i] = [bmain.materials[i] EXCEPT !.nodetree = <<after>>]
                    /\ WithoutValue(after, a.socket) = WithoutValue(tree, a.socket)
                    /\ ValueOf(after, a.socket) =
                         IF bmain.materials[i].blend_method # "MA_BM_CLIP"
                           THEN Filled(tree, a.socket, OpaqueConstant(a))
                         ELSE IF /\ ValueOf(tree, a.socket) = <<100, 100, 100>>
                                 /\ bmain.materials[i].alpha_threshold > 0
                           THEN <<100, 100, 100>>
                         ELSE Filled(tree, a.socket, 0)]_vars

\* the block has consumed the fully transparent classification of a transparent closure
\* of colour (1,1,1) under clip: the classification still carries the colour input
C24_Witness ==
  /\ pc = 2
  /\ ~MAIN_VERSION_FILE_ATLEAST(402, 51)
  /\ bmain.scenes # <<>>
  /\ bmain.scenes[1].engine = "BLENDER_EEVEE"
  /\ Converted(bmain.materials[1])
  /\ bmain.materials[1].blend_method = "MA_BM_CLIP"
  /\ is_fully_transparent(Classification(bmain.materials[1]))
  /\ Feeding(bmain.materials[1].nodetree[1],
             surface_socket(bmain.materials[1].nodetree[1])).type = "SH_NODE_BSDF_TRANSPARENT"
  /\ Classification(bmain.materials[1]).socket =
       <<Feeding(bmain.materials[1].nodetree[1],
                 surface_socket(bmain.materials[1].nodetree[1])).ptr, "Color">>
  /\ reports.list = <<>>

\* a link without its address
Wire(link) == <<link.fromnode, link.fromsock, link.tonode, link.tosock>>

\* C25: when the classification carries a driving socket that has an incoming link and
\* the target is not fully opaque, the conversion adds exactly one greater-than math node,
\* removes the link, links the source of the link to the first input of the math node and
\* the output of the math node to the driving socket, and sets the second input to the
\* threshold (1 - threshold for a transparency); no other node or link changes.
C25_MathNode ==
  [][BlendBlockRuns =>
       \A i \in 1..Len(bmain.materials) :
         (Converted(bmain.materials[i]) /\ bmain.materials[i].blend_method = "MA_BM_CLIP") =>
           \E a \in {Classification(bmain.materials[i])},
              tree \in {bmain.materials[i].nodetree[1]},
              after \in {bmain'.materials[i].nodetree[1]},
              threshold \in {bmain.materials[i].alpha_threshold} :
             (/\ ~is_complex(a)
              /\ a.socket # NullSocket
              /\ socket_link(tree, a.socket[1], a.socket[2]) # 0) =>
               \E link \in {LinkAt(tree, socket_link(tree, a.socket[1], a.socket[2]))} :
                 /\ bmain'.materials[i] = [bmain.materials[i] EXCEPT !.nodetree = <<after>>]
                 /\ Len(after.nodes) = Len(tree.nodes) + 1
                 /\ SubSeq(after.nodes, 1, Len(tree.nodes)) = tree.nodes
                 /\ \E math_node \in {after.nodes[Len(after.nodes)]} :
                      /\ math_node.type = "SH_NODE_MATH"
                      /\ math_node.custom1 = "NODE_MATH_GREATER_THAN"
                      /\ math_node.ptr \notin {tree.nodes[k].ptr : k \in 1..Len(tree.nodes)}
                      /\ math_node.inputs[2].value =
                           IF a.is_transparency THEN 100 - threshold ELSE threshold
                      /\ Len(after.links) = Len(tree.links) + 1
                      /\ SubSeq(after.links, 1, Len(tree.links) - 1) =
                           SelectSeq(tree.links, LAMBDA l : l.ptr # link.ptr)
                      /\ Wire(after.links[Len(after.links) - 1]) =
                           <<link.fromnode, link.fromsock, math_node.ptr,
                             math_node.inputs[1].identifier>>
                      /\ Wire(after.links[Len(after.links)]) =
                           <<math_node.ptr, math_node.outputs[1].identifier,
                             a.socket[1], a.socket[2]>>]_vars

\* the block has put a greater-than math node with the threshold 0.5 between the Value
\* node and the alpha input of the Principled BSDF that feeds the surface socket
C25_Witness ==
  /\ pc = 2
  /\ bmain.materials[1].blend_method = "MA_BM_CLIP"
  /\ bmain.materials[1].nodetree # <<>>
  /\ \E tree \in {bmain.materials[1].nodetree[1]} :
       \E i \in 1..Len(tree.nodes) :
         /\ tree.nodes[i].type = "SH_NODE_MATH"
         /\ tree.nodes[i].custom1 = "NODE_MATH_GREATER_THAN"
         /\ tree.nodes[i].inputs[2].value = 50
         /\ \E j, k \in 1..Len(tree.links) :
              /\ tree.links[j].tonode = tree.nodes[i].ptr
              /\ NodeAt(tree, tree.links[j].fromnode).type = "SH_NODE_VALUE"
              /\ tree.links[k].fromnode = tree.nodes[i].ptr
              /\ tree.links[k].tosock = "Alpha"
              /\ NodeAt(tree, tree.links[k].tonode).type = "SH_NODE_BSDF_PRINCIPLED"
              /\ Feeding(tree, surface_socket(tree)).ptr = tree.links[k].tonode

\* C26: when the target is fully opaque (the blend method of the converted material is
\* not clip) and the classification carries a driving socket, the conversion removes the
\* incoming link of the socket if there is one and sets its default value to the opaque
\* constant (1 for an alpha, 0 for a transparency), and adds no node.
C26_ForcedOpaque ==
  [][BlendBlockRuns =>
       \A i \in 1..Len(bmain.materials) :
         (Converted(bmain.materials[i]) /\ bmain.materials[i].blend_method # "MA_BM_CLIP") =>
           \E a \in {Classification(bmain.materials[i])},
              tree \in {bmain.materials[i].nodetree[1]},
              after \in {bmain'.materials[i].nodetree[1]} :
             (~is_complex(a) /\ a.socket # NullSocket) =>
               /\ bmain'.materials[i] = [bmain.materials[i] EXCEPT !.nodetree = <<after>>]
               /\ socket_link(after, a.socket[1], a.socket[2]) = 0
               /\ after.links =
                    SelectSeq(tree.links,
                              LAMBDA l : <<l.tonode, l.tosock>> # a.socket)
               /\ ValueOf(after, a.socket) = Filled(tree, a.socket, OpaqueConstant(a))
               /\ WithoutValue(after, a.socket).nodes = WithoutValue(tree, a.socket).nodes
               /\ after.type = tree.type]_vars

\* the block has taken the link from the Value node to the alpha input of the Principled
\* BSDF of a material that is not clip, and has set the alpha to 1
C26_Witness ==
  /\ pc = 2
  /\ bmain.materials[1].blend_method = "MA_BM_SOLID"
  /\ bmain.materials[1].nodetree # <<>>
  /\ \E tree \in {bmain.materials[1].nodetree[1]} :
       /\ Len(tree.nodes) = 3
       /\ Feeding(tree, surface_socket(tree)).type = "SH_NODE_BSDF_PRINCIPLED"
       /\ Fixed(tree, Feeding(tree, surface_socket(tree)), "Alpha", 100)
       /\ \E i \in 1..Len(tree.nodes) :
            /\ tree.nodes[i].type = "SH_NODE_VALUE"
            /\ \A k \in 1..Len(tree.links) : tree.links[k].fromnode # tree.nodes[i].ptr

\* C27: for every object whose proxy is an object that is not linked, the check clears
\* the proxy of the object and the back-reference of the proxy, emits exactly one
\* RPT_INFO report that names the object, and adds one to the missing-proxy counter; an
\* object with a linked proxy keeps it, has the back-reference of the proxy set to
\* itself, and produces no report.
C27_ProxyRepair ==
  [][ProxyCheck =>
       \E ob \in {bmain.objects[pc]}, after \in {bmain'.objects} :
         /\ ob.proxy # 0 /\ ~ID_IS_LINKED(bmain.objects[ob.proxy]) =>
              /\ after[pc].proxy = 0
              /\ after[ob.proxy].proxy_from = 0
              /\ Len(reports'.list) = Len(reports.list) + 1
              /\ SubSeq(reports'.list, 1, Len(reports.list)) = reports.list
              /\ reports'.list[Len(reports'.list)].type = "RPT_INFO"
              /\ reports'.list[Len(reports'.list)].args[1] = ob.name
              /\ reports'.count.missing_obproxies = reports.count.missing_obproxies + 1
              /\ \A k \in 1..Len(after) :
                   /\ k # pc => after[k].proxy = bmain.objects[k].proxy
                   /\ k # ob.proxy => after[k].proxy_from = bmain.objects[k].proxy_from
         /\ ob.proxy # 0 /\ ID_IS_LINKED(bmain.objects[ob.proxy]) =>
              /\ after[pc].proxy = ob.proxy
              /\ after[ob.proxy].proxy_from = pc
              /\ reports' = reports
         /\ ob.proxy = 0 => (after = bmain.objects /\ reports' = reports)]_vars

\* after the loop: the second object has a linked proxy and is its back-reference, the
\* third one has lost a proxy that was not linked, with a report and a count of one
C27_Witness ==
  /\ Len(bmain.objects) = 3
  /\ pc = 4
  /\ bmain.objects[2].proxy = 1
  /\ ID_IS_LINKED(bmain.objects[1])
  /\ bmain.objects[1].proxy_from = 2
  /\ bmain.objects[3].proxy = 0
  /\ Len(reports.list) = 1
  /\ reports.list[1].args = <<bmain.objects[3].name>>
  /\ reports.count.missing_obproxies = 1

\* C28 as stated: after BeginIME(invoker), PauseIME and then ResumeIME, the IME is
\* enabled again with the invoker that was active before the pause, IsPaused is false,
\* and the assertion of BeginIME that the invoker is not GHOST_IMEInvokerNone holds.
C28_AsStated ==
  [][(CallResumeIME /\ ime.paused_from # GHOST_IMEInvokerNone /\ ~ime.asserted) =>
       /\ ime'.himc
       /\ ime'.m_invoker = ime.paused_from
       /\ ~ime'.m_is_paused
       /\ ~ime'.asserted]_vars

\* the simultaneous remap: the new index of the old index of an input
Remapped(input) ==
  IF \E k \in 1..Len(remap_table) : remap_table[k][1] = input
    THEN remap_table[CHOOSE k \in 1..Len(remap_table) : remap_table[k][1] = input][2]
  ELSE input

\* the F-curve animates an input of a Principled BSDF node
OnPrincipled(fcu) ==
  \E n \in 1..Len(bmain.nodes) :
    bmain.nodes[n].name = fcu.node /\ bmain.nodes[n].type = "SH_NODE_BSDF_PRINCIPLED"

\* C29: applying remap_table entry by entry in its listed order is the simultaneous
\* remap: every animation path on an old input index of the domain of the table ends on
\* the new index of that entry, no path is renamed more than once, and the paths on the
\* indices 0 and 17 are unchanged.
C29_SimultaneousRemap ==
  [][(UpdateAnimdata /\ ~MAIN_VERSION_FILE_ATLEAST(400, 24)) =>
       \E kept \in {SelectSeq(bmain.fcurves,
                              LAMBDA fcu : ~(OnPrincipled(fcu) /\ fcu.input \in {3, 18}))},
          after \in {bmain'.fcurves} :
         /\ Len(after) = Len(kept)
         /\ \A k \in 1..Len(kept) :
              /\ after[k].node = kept[k].node
              /\ after[k].renames <= 1
              /\ OnPrincipled(kept[k]) =>
                   /\ after[k].input = Remapped(kept[k].input)
                   /\ kept[k].input \in {0, 17} => after[k] = kept[k]]_vars

\* the file had F-curves on the inputs 2 and 9 of a Principled BSDF node, the chain
\* 9 -> 2 -> 8 of the table: they are on the inputs 8 and 2, each renamed once
C29_Witness ==
  /\ pc = 2
  /\ versionfile = 400
  /\ subversionfile = 23
  /\ Len(bmain.fcurves) = 2
  /\ bmain.fcurves[1] = [node |-> "Principled BSDF", input |-> 8, renames |-> 1]
  /\ bmain.fcurves[2] = [node |-> "Principled BSDF", input |-> 2, renames |-> 1]

\* the values other than 1 that the paint tools of the tool settings carry
Carried(ts) ==
  {v \in {ts.imapaint.num_input_samples_deprecated}
         \cup {num_input_samples(ts[PaintTools[i]]) : i \in 1..Len(PaintTools)} : v # 1}

\* C30 as stated: for each scene, unified_paint_settings.input_samples becomes the single
\* value other than 1 that its paint tools carry, and 1 when two tools carry different
\* values other than 1; every brush has its input_samples set to 1.
C30_AsStated ==
  [][(UnifyInputSamples /\ ~MAIN_VERSION_FILE_ATLEAST(401, 17)) =>
       /\ \A n \in 1..Len(bmain.scenes) :
            \E carried \in {Carried(bmain.scenes[n].toolsettings)} :
              bmain'.scenes[n].toolsettings.unified_paint_settings.input_samples =
                IF Cardinality(carried) = 1 THEN CHOOSE v \in carried : TRUE ELSE 1
       /\ \A n \in 1..Len(bmain'.brushes) : bmain'.brushes[n].input_samples = 1]_vars

====
